---- MODULE Spec2Model ----
(***************************************************************************)
(* Model of the survey question generation pipeline of                     *)
(* backend/app/services/llm_service.py (LLMService) together with the      *)
(* static configuration it reads (pre_event_config.py, question_bank.py,   *)
(* universal_questions.py).                                                *)
(*                                                                         *)
(* Texts are TLA+ strings; TLC evaluates Len, SubSeq and \o on strings,    *)
(* which is what the substring and case filters below are built from.      *)
(* JSON values are tagged records: [t |-> "null"], [t |-> "bool", b],      *)
(* [t |-> "num", n], [t |-> "str", s], [t |-> "list", l], [t |-> "obj", o].*)
(***************************************************************************)
EXTENDS Integers, Sequences, FiniteSets, TLC

(***************************************************************************)
(* Bounds of the model.                                                    *)
(***************************************************************************)
\* longest question list handed to the normalizer on its own
MaxQuestions == 2
\* longest question list an LLM answer to call #1 carries
MaxGenerated == 2
\* longest question list an LLM answer to call #3 carries
MaxRefined == 1
\* largest number of goals in the must_have bucket of a request
MaxMustHave == 7
\* largest number of goals in the interested bucket of a request
MaxInterested == 3

(***************************************************************************)
(* Python string primitives.                                               *)
(***************************************************************************)
UpperAlpha == "ABCDEFGHIJKLMNOPQRSTUVWXYZ"

LowerAlpha == "abcdefghijklmnopqrstuvwxyz"

Chr(s, i) == SubSeq(s, i, i)

UpperChars == {Chr(UpperAlpha, k) : k \in 1..26}

LowerTable ==
    [c \in UpperChars |-> Chr(LowerAlpha, CHOOSE k \in 1..26 : Chr(UpperAlpha, k) = c)]

\* str.lower() on one character
LowerChar(c) == IF c \in UpperChars THEN LowerTable[c] ELSE c

RECURSIVE LowerFrom(_, _)
LowerFrom(s, i) ==
    IF i > Len(s) THEN "" ELSE LowerChar(Chr(s, i)) \o LowerFrom(s, i + 1)

\* a variant of str.lower() that leaves the text as it is
LowerIdentity(s) == s

\* str.lower()
Lower(s) == LowerFrom(s, 1)

IsSpace(c) == c \in {" ", "\t", "\n"}

\* str.strip(): drop leading and trailing whitespace
Strip(s) ==
    LET keep == {i \in 1..Len(s) : ~IsSpace(Chr(s, i))}
    IN  IF keep = {} THEN ""
        ELSE LET lo == CHOOSE i \in keep : \A j \in keep : i <= j
                 hi == CHOOSE i \in keep : \A j \in keep : i >= j
             IN  SubSeq(s, lo, hi)

\* Python "p in s" on strings
Contains(s, p) ==
    \E i \in 1..(Len(s) - Len(p) + 1) : SubSeq(s, i, i + Len(p) - 1) = p

\* template.format(event_name=name): every {event_name} field of the
\* template is replaced by the name
RECURSIVE Format(_, _)
Format(t, name) ==
    LET hits == {i \in 1..(Len(t) - 11) : SubSeq(t, i, i + 11) = "{event_name}"}
    IN  IF hits = {} THEN t
        ELSE LET i == CHOOSE h \in hits : \A g \in hits : h <= g
             IN  SubSeq(t, 1, i - 1) \o name \o Format(SubSeq(t, i + 12, Len(t)), name)

(***************************************************************************)
(* JSON values and Python's view of them.                                  *)
(***************************************************************************)
JNull == [t |-> "null"]

JBool(b) == [t |-> "bool", b |-> b]

JNum(n) == [t |-> "num", n |-> n]

JStr(s) == [t |-> "str", s |-> s]

JList(l) == [t |-> "list", l |-> l]

JObj(o) == [t |-> "obj", o |-> o]

\* the empty dict {}
EmptyDict == JObj(<<>>)

\* bool(v)
Truthy(v) ==
    CASE v.t = "null" -> FALSE
      [] v.t = "bool" -> v.b
      [] v.t = "num"  -> v.n # 0
      [] v.t = "str"  -> v.s # ""
      [] v.t = "list" -> Len(v.l) > 0
      [] v.t = "obj"  -> DOMAIN v.o # {}

\* "key in d" for a dict d
HasKey(d, key) == key \in DOMAIN d.o

\* d.get(key, default) for a dict d
Get(d, key, default) == IF key \in DOMAIN d.o THEN d.o[key] ELSE default

\* the outcome of a call: a returned value or a raised exception
Ret(v) == [raised |-> FALSE, v |-> v]

Raise == [raised |-> TRUE]

(***************************************************************************)
(* pre_event_config.py                                                     *)
(***************************************************************************)
forbidden_patterns == <<
    "how likely are you to recommend",
    "would you recommend",
    "net promoter",
    "how satisfied were you",
    "how satisfied are you with",
    "rate your satisfaction",
    "overall satisfaction",
    "what did you like most",
    "what did you like least",
    "what did you enjoy",
    "what could be improved",
    "what would you change",
    "what was the highlight",
    "what was your favorite",
    "what disappointed you",
    "how was your experience",
    "how would you rate the event",
    "did the event meet your expectations",
    "was the event worth" >>

min_questions == 10

max_questions == 25

bucket_question_counts == [must_have |-> 4, interested |-> 2, not_important |-> 0]

\* pattern.lower() of every pattern
forbidden_patterns_lower ==
    [k \in 1..Len(forbidden_patterns) |-> Lower(forbidden_patterns[k])]

\* a test that flags only a text that is a pattern, not one containing it
is_forbidden_question_exact(question_text) ==
    \E k \in 1..Len(forbidden_patterns_lower) :
        forbidden_patterns_lower[k] = Lower(question_text)

\* is_forbidden_question (lines 99-113)
is_forbidden_question(question_text) ==
    LET question_lower == Lower(question_text)
    IN  \E k \in 1..Len(forbidden_patterns_lower) :
            Contains(question_lower, forbidden_patterns_lower[k])

get_survey_constraints ==
    [min_questions |-> min_questions, max_questions |-> max_questions]

get_bucket_question_counts == bucket_question_counts

(***************************************************************************)
(* universal_questions.py                                                  *)
(***************************************************************************)
UNIVERSAL_QUESTIONS == <<
    [question_text |-> "First Name", order |-> -10],
    [question_text |-> "Last Name", order |-> -9],
    [question_text |-> "Email Address", order |-> -8],
    [question_text |-> "Phone Number", order |-> -7],
    [question_text |-> "Where is your home base / where did you grow up?", order |-> -6],
    [question_text |-> "Where do you currently live?", order |-> -5],
    [question_text |-> "Age bracket", order |-> -4],
    [question_text |-> "Occupation / Field of Work", order |-> -3] >>

get_universal_question_texts ==
    [k \in 1..Len(UNIVERSAL_QUESTIONS) |-> UNIVERSAL_QUESTIONS[k].question_text]

(***************************************************************************)
(* question_bank.py: the required questions and the first entries of the   *)
(* optional ones.                                                          *)
(***************************************************************************)
QUESTION_BANK == <<
    [id |-> "req_accessibility",
     question_text_template |-> "Do you have any accessibility requirements we should know about for {event_name}?",
     question_type |-> "textarea", options |-> JNull, is_required |-> TRUE],
    [id |-> "req_catch_all",
     question_text_template |-> "Is there anything else you'd like us to know about your expectations for {event_name}?",
     question_type |-> "textarea", options |-> JNull, is_required |-> TRUE],
    [id |-> "exp_001",
     question_text_template |-> "What are you most hoping to experience at {event_name}?",
     question_type |-> "Multi-select",
     options |-> JList(<<"Live music performances", "Discovering new artists", "Social atmosphere", "Food and drinks", "Meeting like-minded people", "Unique venue experience">>),
     is_required |-> FALSE],
    [id |-> "exp_002",
     question_text_template |-> "How important is it that {event_name} delivers a unique experience compared to other events?",
     question_type |-> "Likert",
     options |-> JList(<<"Not Important", "Slightly Important", "Moderately Important", "Very Important", "Extremely Important">>),
     is_required |-> FALSE] >>

get_required_questions == SelectSeq(QUESTION_BANK, LAMBDA q : q.is_required)

(***************************************************************************)
(* llm_service.py: context analysis.                                       *)
(***************************************************************************)
\* max(a, b) and min(a, b)
Max(a, b) == IF a >= b THEN a ELSE b

Min(a, b) == IF a <= b THEN a ELSE b

\* a target count that is only capped from above
TargetCountNoFloor(must_have_goals, interested_goals) ==
    Min(Len(must_have_goals) * get_bucket_question_counts.must_have +
        Len(interested_goals) * get_bucket_question_counts.interested,
        get_survey_constraints.max_questions)

\* lines 113-123 of _analyze_context
TargetCount(must_have_goals, interested_goals) ==
    LET bucket_counts == get_bucket_question_counts
        survey_constraints == get_survey_constraints
        target_count == Len(must_have_goals) * bucket_counts.must_have +
                        Len(interested_goals) * bucket_counts.interested
    IN  Max(survey_constraints.min_questions,
            Min(target_count, survey_constraints.max_questions))

\* _analyze_context: the prompt texts it also prepares are not modelled,
\* they take no part in the control flow
analyze_context(context) ==
    [event_name |-> context.event_name,
     must_have_goals |-> context.goals_must_have,
     interested_goals |-> context.goals_interested,
     target_question_count |->
         TargetCount(context.goals_must_have, context.goals_interested),
     required_questions |-> get_required_questions]

(***************************************************************************)
(* llm_service.py: the fallback set.                                       *)
(***************************************************************************)
likert_scale == <<"Strongly Disagree", "Disagree", "Neutral", "Agree", "Strongly Agree">>

Q(text, type, options, required, order) ==
    [question_text |-> text, question_type |-> type, options |-> options,
     required |-> required, order |-> order]

pre_event_fallback(event_name, start_order) == <<
    Q("What are you most looking forward to at " \o event_name \o "?", "Multi-select",
      JList(<<"Music performances", "Meeting new people", "Food & drinks", "Overall atmosphere", "Discovering new artists", "Dancing">>),
      TRUE, start_order),
    Q("How excited are you about attending " \o event_name \o "?", "Likert",
      JList(likert_scale), TRUE, start_order + 1),
    Q("What would make " \o event_name \o " a success for you?", "textarea",
      JNull, FALSE, start_order + 2),
    Q("What music genres are you most interested in?", "Multi-select",
      JList(<<"Electronic/Dance", "Hip-Hop/R&B", "Rock/Alternative", "Pop", "Indie", "House/Techno", "Other">>),
      TRUE, start_order + 3),
    Q("What time of day do you prefer to attend events?", "Single-select",
      JList(<<"Morning", "Afternoon", "Evening", "Late Night", "No preference">>),
      FALSE, start_order + 4),
    Q("How important is the food and beverage selection to your experience?", "Likert",
      JList(likert_scale), FALSE, start_order + 5),
    Q("How are you planning to get to " \o event_name \o "?", "Single-select",
      JList(<<"Driving myself", "Rideshare (Uber/Lyft)", "Public transport", "Walking/Cycling", "Getting dropped off", "Not sure yet">>),
      TRUE, start_order + 6),
    Q("What information would be most helpful to receive before the event?", "Multi-select",
      JList(<<"Lineup schedule", "Venue map", "Parking details", "Entry procedures", "Food options", "Weather updates">>),
      FALSE, start_order + 7),
    Q("Will you be attending alone or with others?", "Single-select",
      JList(<<"Alone", "With 1 other person", "With a small group (3-5)", "With a large group (6+)">>),
      FALSE, start_order + 8),
    Q("How did you hear about " \o event_name \o "?", "Single-select",
      JList(<<"Social media", "Friend/Word of mouth", "Email newsletter", "Online ads", "Event listing sites", "Other">>),
      TRUE, start_order + 9),
    Q("What made you decide to attend?", "Multi-select",
      JList(<<"The lineup", "Price/value", "Venue location", "Friend recommendation", "Past experience with organizer", "FOMO">>),
      FALSE, start_order + 10),
    Q("How would you rate the ticket price compared to similar events?", "Single-select",
      JList(<<"Much better value", "Slightly better value", "About the same", "Slightly more expensive", "Much more expensive">>),
      FALSE, start_order + 11),
    Q("What ticket type did you purchase?", "Single-select",
      JList(<<"General Admission", "VIP", "Early Bird", "Group Package", "Other">>),
      FALSE, start_order + 12) >>

\* _get_fallback_questions
get_fallback_questions(context) ==
    LET event_name == context.event_name
        required_questions == get_required_questions
        fallback == [k \in 1..Len(required_questions) |->
                        Q(Format(required_questions[k].question_text_template, event_name),
                          required_questions[k].question_type,
                          required_questions[k].options,
                          TRUE, k - 1)]
        start_order == Len(fallback)
    IN  fallback \o pre_event_fallback(event_name, start_order)

(***************************************************************************)
(* The LLM client.  A chat completion either raises (timeout, API error)   *)
(* or returns a message content.  A content is described by what the       *)
(* parsers of this module can see of it:                                   *)
(*   c       "none" (None or ""), "json" (a JSON document) or "text"       *)
(*           (anything json.loads rejects, e.g. a truncated document);     *)
(*   v       the value json.loads returns for a JSON document;             *)
(*   fence   what a ```json {...}``` block inside the content holds:       *)
(*           "absent", "undecodable" or "empty_object";                    *)
(*   bracket what the greedy match of \[.*\] holds: [t |-> "absent"],      *)
(*           [t |-> "undecodable"] or the JSON list it decodes to.         *)
(***************************************************************************)
ApiError == [kind |-> "error"]

Reply(content) == [kind |-> "ok", content |-> content]

NoContent == [c |-> "none", v |-> JNull, fence |-> "absent", bracket |-> [t |-> "absent"]]

JsonDoc(v) == [c |-> "json", v |-> v, fence |-> "absent", bracket |-> [t |-> "absent"]]

JsonDocFenced(v, fence) == [c |-> "json", v |-> v, fence |-> fence, bracket |-> [t |-> "absent"]]

Text(bracket) == [c |-> "text", v |-> JNull, fence |-> "absent", bracket |-> bracket]

\* json.loads(content): raises JSONDecodeError unless the content is a JSON document
json_loads(content) == IF content.c = "json" THEN Ret(content.v) ELSE Raise

EmptySections == JObj([sections |-> JList(<<>>)])

\* the legacy formats wrapped into one section
OneSection(questions) ==
    JObj([sections |-> JList(<<JObj([section_name |-> JStr("Survey Questions"),
                                      questions |-> questions])>>)])

\* "sections" in data / "questions" in data for the value json.loads returned:
\* key test on a dict, element test on a list, substring test on a string,
\* TypeError on a number, a boolean or null
InData(key, data) ==
    CASE data.t = "obj"  -> Ret(HasKey(data, key))
      [] data.t = "list" -> Ret(\E k \in 1..Len(data.l) : data.l[k] = JStr(key))
      [] data.t = "str"  -> Ret(Contains(data.s, key))
      [] OTHER           -> Raise

\* the except json.JSONDecodeError branch of _parse_response (lines 409-425)
ParseBracket(content) ==
    IF content.bracket.t = "list" THEN Ret(OneSection(content.bracket))
    ELSE Ret(EmptySections)

\* _parse_response (lines 370-425); only JSONDecodeError is caught inside
parse_response(content) ==
    LET loaded == json_loads(content)
    IN  IF loaded.raised THEN ParseBracket(content)
        ELSE LET data == loaded.v
                 hasSections == InData("sections", data)
                 hasQuestions == InData("questions", data)
             IN  IF hasSections.raised THEN Raise
                 ELSE IF hasSections.v THEN Ret(data)
                 ELSE IF hasQuestions.v
                      THEN IF data.t = "obj" THEN Ret(OneSection(data.o.questions))
                           ELSE Raise   \* data["questions"] on a list or a string
                 ELSE IF data.t = "list" THEN Ret(OneSection(data))
                 ELSE IF content.fence = "undecodable" THEN ParseBracket(content)
                 ELSE Ret(EmptySections)

\* _generate_questions_with_llm (LLM call #1) for the reply r of the client
generate_questions_with_llm(r) ==
    IF r.kind = "error" THEN EmptySections
    ELSE IF r.content.c = "none" THEN EmptySections
    ELSE LET parsed == parse_response(r.content)
         IN  IF parsed.raised THEN EmptySections ELSE parsed.v

PassedVerdict == JObj([validation_passed |-> JBool(TRUE)])

\* a judge whose failure to answer counts as a failed validation
validate_response_fail_closed(r) ==
    LET FailedVerdict == JObj([validation_passed |-> JBool(FALSE)])
    IN  IF r.kind = "error" THEN FailedVerdict
        ELSE IF r.content.c = "none" THEN FailedVerdict
        ELSE LET loaded == json_loads(r.content)
             IN  IF loaded.raised THEN FailedVerdict ELSE loaded.v

\* _validate_response (LLM call #2) for the reply r of the client
validate_response(r) ==
    IF r.kind = "error" THEN PassedVerdict
    ELSE IF r.content.c = "none" THEN PassedVerdict
    ELSE LET loaded == json_loads(r.content)
         IN  IF loaded.raised THEN PassedVerdict ELSE loaded.v

\* a refinement that returns whatever the parser made of the reply
refine_questions_unchecked(questions_data, r) ==
    IF r.kind = "error" THEN questions_data
    ELSE IF r.content.c = "none" THEN questions_data
    ELSE LET parsed == parse_response(r.content)
         IN  IF parsed.raised THEN questions_data
             ELSE IF parsed.v.t # "obj" THEN questions_data
             ELSE parsed.v

\* _refine_questions (LLM call #3) for the reply r of the client
refine_questions(questions_data, r) ==
    IF r.kind = "error" THEN questions_data
    ELSE IF r.content.c = "none" THEN questions_data
    ELSE LET parsed == parse_response(r.content)
         IN  IF parsed.raised THEN questions_data
             ELSE IF parsed.v.t # "obj" THEN questions_data   \* .get raises
             ELSE IF Truthy(Get(parsed.v, "sections", JNull)) THEN parsed.v
             ELSE questions_data

\* the keys of a dict as a list (iteration order plays no part below:
\* every key is a string)
RECURSIVE KeysOf(_)
KeysOf(S) ==
    IF S = {} THEN <<>>
    ELSE LET x == CHOOSE y \in S : TRUE IN <<JStr(x)>> \o KeysOf(S \ {x})

\* iterating a JSON value in a for loop or in list.extend
Iterate(v) ==
    CASE v.t = "list" -> Ret(v.l)
      [] v.t = "str"  -> Ret([k \in 1..Len(v.s) |-> JStr(Chr(v.s, k))])
      [] v.t = "obj"  -> Ret(KeysOf(DOMAIN v.o))
      [] OTHER        -> Raise   \* TypeError: not iterable

RECURSIVE FlattenFrom(_, _)
FlattenFrom(sections, k) ==
    IF k > Len(sections) THEN Ret(<<>>)
    ELSE LET section == sections[k]
         IN  IF section.t # "obj" THEN Raise   \* section.get on a non-dict
             ELSE LET items == Iterate(Get(section, "questions", JList(<<>>)))
                  IN  IF items.raised THEN Raise
                      ELSE LET rest == FlattenFrom(sections, k + 1)
                           IN  IF rest.raised THEN Raise
                               ELSE Ret(items.v \o rest.v)

\* _flatten_sections for the value found under "sections"
flatten_sections(sections) ==
    LET secs == Iterate(sections)
    IN  IF secs.raised THEN Raise ELSE FlattenFrom(secs.v, 1)

(***************************************************************************)
(* llm_service.py: the normalizer (_validate_questions).                   *)
(***************************************************************************)
valid_types == <<"text", "textarea", "Single-select", "Multi-select", "Likert">>

demographic_keywords == <<
    "name", "email", "phone", "age", "location", "occupation", "demographic",
    "where did you grow up", "where do you live", "home base", "grow up", "currently live" >>

InSeq(x, seq) == \E k \in 1..Len(seq) : seq[k] = x

\* line 434
universal_texts_lower ==
    [k \in 1..Len(get_universal_question_texts) |->
        Lower(get_universal_question_texts[k])]

\* lines 450-466: the three content filters on the stripped text
IsFiltered(question_text) ==
    LET question_text_lower == Lower(question_text)
    IN  \/ InSeq(question_text_lower, universal_texts_lower)
        \/ \E k \in 1..Len(demographic_keywords) :
                Contains(question_text_lower, demographic_keywords[k])
        \/ is_forbidden_question(question_text)

\* lines 468-493 without the Likert canonicalisation of lines 478-483
NormalizeOneKeepOptions(q, question_text, i) ==
    LET raw_type == Get(q, "question_type", JStr("text"))
        type1 == IF raw_type.t = "str" /\ InSeq(raw_type.s, valid_types)
                 THEN raw_type.s ELSE "text"
        raw_options == Get(q, "options", JNull)
        needs == type1 \in {"Single-select", "Multi-select", "Likert"}
        missing == ~Truthy(raw_options) \/ raw_options.t # "list"
    IN  Q(question_text,
          IF needs /\ missing THEN "text" ELSE type1,
          IF needs /\ ~missing THEN raw_options ELSE JNull,
          Truthy(Get(q, "required", JBool(FALSE))),
          i)

\* lines 468-493 without the demotion to text of lines 473-476
NormalizeOneKeepType(q, question_text, i) ==
    LET raw_type == Get(q, "question_type", JStr("text"))
        type1 == IF raw_type.t = "str" /\ InSeq(raw_type.s, valid_types)
                 THEN raw_type.s ELSE "text"
        raw_options == Get(q, "options", JNull)
        needs == type1 \in {"Single-select", "Multi-select", "Likert"}
        missing == ~Truthy(raw_options) \/ raw_options.t # "list"
        options == IF ~needs \/ missing THEN JNull
                   ELSE IF type1 = "Likert" /\ raw_options # JList(likert_scale)
                        THEN JList(likert_scale)
                        ELSE raw_options
    IN  Q(question_text, type1, options,
          Truthy(Get(q, "required", JBool(FALSE))), i)

\* lines 468-493: type coercion, options, required, order for a kept question
NormalizeOne(q, question_text, i) ==
    LET raw_type == Get(q, "question_type", JStr("text"))
        type1 == IF raw_type.t = "str" /\ InSeq(raw_type.s, valid_types)
                 THEN raw_type.s ELSE "text"
        raw_options == Get(q, "options", JNull)
        needs == type1 \in {"Single-select", "Multi-select", "Likert"}
        missing == ~Truthy(raw_options) \/ raw_options.t # "list"
        question_type == IF needs /\ missing THEN "text" ELSE type1
        options == IF ~needs \/ missing THEN JNull
                   ELSE IF type1 = "Likert" /\ raw_options # JList(likert_scale)
                        THEN JList(likert_scale)
                        ELSE raw_options
    IN  Q(question_text, question_type, options,
          Truthy(Get(q, "required", JBool(FALSE))), i)

\* the loop of _validate_questions from position k on; i = k - 1 is the
\* index enumerate() hands out
RECURSIVE ValidateFrom(_, _)
ValidateFrom(questions, k) ==
    IF k > Len(questions) THEN Ret(<<>>)
    ELSE LET q == questions[k]
             rest == ValidateFrom(questions, k + 1)
         IN  IF q.t # "obj" THEN rest
             ELSE LET raw_text == Get(q, "question_text", JStr(""))
                  IN  IF raw_text.t # "str" THEN Raise   \* .strip() on a non-string
                      ELSE LET question_text == Strip(raw_text.s)
                           IN  IF question_text = "" THEN rest
                               ELSE IF IsFiltered(question_text) THEN rest
                               ELSE IF rest.raised THEN Raise
                               ELSE Ret(<<NormalizeOne(q, question_text, k - 1)>> \o rest.v)

\* _validate_questions
validate_questions(questions) == ValidateFrom(questions, 1)

(***************************************************************************)
(* The requests and the LLM replies the model explores.                    *)
(***************************************************************************)
GoalNames == <<"pricing", "lineup", "logistics", "marketing",
               "accessibility", "expectations", "preferences", "registration">>

\* n goal names, taken from the catalog from position first on
Goals(n, first) == [k \in 1..n |-> GoalNames[((first + k - 2) % Len(GoalNames)) + 1]]

EventNames == {"Summer Fest", "Stage Name Live"}

Context(m, i, name) ==
    [event_name |-> name, goals_must_have |-> Goals(m, 1), goals_interested |-> Goals(i, 2)]

\* the requests of the pipeline runs
PipelineContexts == {Context(1, 1, name) : name \in EventNames}

\* the requests of the context analysis
AnalysisContexts ==
    {Context(m, i, name) : m \in 0..MaxMustHave, i \in 0..MaxInterested, name \in EventNames}

RawQ(text, type, options, required) ==
    JObj([question_text |-> JStr(text), question_type |-> JStr(type),
          options |-> options, required |-> required])

RawQuestions == {
    RawQ("Which acts excite you?", "Single-select", JList(<<"Yes", "No">>), JBool(TRUE)),
    RawQ(" Are you excited? ", "Likert", JList(<<"1", "2", "3">>), JStr("yes")),
    RawQ("Is the venue easy to reach?", "Likert", JList(likert_scale), JBool(FALSE)),
    RawQ("Do you agree?", "Likert", JNull, JBool(FALSE)),
    RawQ("  FIRST NAME ", "text", JNull, JBool(TRUE)),
    RawQ("What is your stage persona?", "textarea", JList(<<"A">>), JNull),
    RawQ("Would you recommend us?", "Multi-select", JStr("Yes,No"), JBool(FALSE)),
    RawQ("Rate the hype", "rating", JList(<<"1", "2">>), JNum(1)),
    RawQ("  ", "text", JNull, JBool(FALSE)),
    JObj([question_type |-> JStr("text")]),
    JObj([question_text |-> JStr("What do you expect?")]),
    JObj([question_text |-> JNull, question_type |-> JStr("text")]),
    JStr("What do you expect?") }

\* the raw questions the pipeline runs draw from
PipelineQuestions == {
    RawQ("Which acts excite you?", "Single-select", JList(<<"Yes", "No">>), JBool(TRUE)),
    RawQ(" Are you excited? ", "Likert", JList(<<"1", "2", "3">>), JStr("yes")),
    RawQ("  FIRST NAME ", "text", JNull, JBool(TRUE)),
    JObj([question_text |-> JNull, question_type |-> JStr("text")]) }

ListsOver(S, n) == UNION {[1..k -> S] : k \in 0..n}

QuestionLists(n) == ListsOver(PipelineQuestions, n)

Section(name, questions) ==
    JObj([section_name |-> JStr(name), questions |-> questions])

Sections(L) == JObj([sections |-> JList(<<Section("Expectations", JList(L))>>)])

\* JSON documents of an unexpected shape
OddDocs == {
    EmptyDict,
    JObj([sections |-> JList(<<>>)]),
    JObj([sections |-> JNull]),
    JObj([sections |-> JStr("abc")]),
    JObj([sections |-> JList(<<JStr("Expectations")>>)]),
    JObj([sections |-> JList(<<Section("Expectations", JNull)>>)]),
    JObj([sections |-> JList(<<JObj([section_name |-> JStr("Expectations")])>>)]),
    JObj([sections |-> JList(<<Section("Expectations", JStr("no"))>>)]),
    JObj([sections |-> JList(<<
        Section("Expectations", JList(<<RawQ("  FIRST NAME ", "text", JNull, JBool(TRUE))>>)),
        Section("Logistics", JList(<<RawQ("Which acts excite you?", "Likert", JList(<<"Yes", "No">>), JBool(TRUE))>>))>>)]),
    JNum(5),
    JStr("three sections"),
    JStr("no"),
    JList(<<JStr("sections")>>) }

\* the contents a reply to call #1 or call #3 is drawn from, with question
\* lists of at most n questions
QuestionContents(n) ==
    {NoContent, Text([t |-> "absent"]), Text([t |-> "undecodable"]),
     JsonDocFenced(JObj([note |-> JStr("fenced: {}")]), "empty_object"),
     JsonDocFenced(JObj([note |-> JStr("fenced: {bad}")]), "undecodable")}
        \cup {JsonDoc(d) : d \in OddDocs}
        \cup {JsonDoc(Sections(L)) : L \in QuestionLists(n)}
        \cup {JsonDoc(JObj([questions |-> JList(L)])) : L \in QuestionLists(1)}
        \cup {JsonDoc(JList(L)) : L \in QuestionLists(1)}
        \cup {Text(JList(L)) : L \in QuestionLists(1)}

GenerateReplies == {ApiError} \cup {Reply(c) : c \in QuestionContents(MaxGenerated)}

RefineReplies == {ApiError} \cup {Reply(c) : c \in QuestionContents(MaxRefined)}

Verdicts == {
    JObj([validation_passed |-> JBool(TRUE)]),
    JObj([validation_passed |-> JBool(FALSE),
          refinement_instructions |-> JStr("Add two pricing questions.")]),
    JObj([validation_passed |-> JBool(FALSE)]),
    JObj([validation_passed |-> JNull]),
    JObj([validation_passed |-> JStr("false")]),
    JObj([issues |-> JList(<<>>)]),
    EmptyDict,
    JList(<<>>),
    JNum(0) }

ValidateReplies ==
    {ApiError, Reply(NoContent), Reply(Text([t |-> "absent"])),
     Reply(Text([t |-> "undecodable"]))}
        \cup {Reply(JsonDoc(v)) : v \in Verdicts}

(***************************************************************************)
(* difflib.SequenceMatcher(None, a, b).ratio() as event_scraper.py uses    *)
(* it: the matching blocks are found by taking the longest common block    *)
(* (the earliest in a, then the earliest in b, among the longest) and      *)
(* recursing on the pieces to its left and to its right; the ratio is      *)
(* 2 * M / (len(a) + len(b)) with M the total size of the blocks.  The     *)
(* names compared are far below the 200 characters at which difflib        *)
(* starts to discard popular characters.                                   *)
(***************************************************************************)
\* the sizes k for which a and b share a block of k characters
CommonSizes(a, b) ==
    {k \in 1..Min(Len(a), Len(b)) :
        \E i \in 1..(Len(a) - k + 1), j \in 1..(Len(b) - k + 1) :
            SubSeq(a, i, i + k - 1) = SubSeq(b, j, j + k - 1)}

\* find_longest_match: <<i, j, k>> with a[i..i+k-1] = b[j..j+k-1], k maximal,
\* then i minimal, then j minimal; k = 0 when nothing matches
find_longest_match(a, b) ==
    LET k == Cardinality(CommonSizes(a, b))
    IN  IF k = 0 THEN <<1, 1, 0>>
        ELSE LET starts == {i \in 1..(Len(a) - k + 1) :
                               \E j \in 1..(Len(b) - k + 1) :
                                   SubSeq(a, i, i + k - 1) = SubSeq(b, j, j + k - 1)}
                 i == CHOOSE x \in starts : \A y \in starts : x <= y
                 into == {j \in 1..(Len(b) - k + 1) :
                             SubSeq(a, i, i + k - 1) = SubSeq(b, j, j + k - 1)}
                 j == CHOOSE x \in into : \A y \in into : x <= y
             IN  <<i, j, k>>

\* the total size of the matching blocks of a and b
RECURSIVE matching_size(_, _)
matching_size(a, b) ==
    IF Len(a) = 0 \/ Len(b) = 0 THEN 0
    ELSE LET m == find_longest_match(a, b)
             i == m[1]
             j == m[2]
             k == m[3]
         IN  IF k = 0 THEN 0
             ELSE k + matching_size(SubSeq(a, 1, i - 1), SubSeq(b, 1, j - 1))
                    + matching_size(SubSeq(a, i + k, Len(a)), SubSeq(b, j + k, Len(b)))

\* the tier names of the pages below, trimmed and lower-cased: their
\* matching sizes are computed once
TabulatedNames == {
    "early bird", "earlybird", "vip", "general admission", "first release",
    "tier release", "ga", "vip gold", "backstage" }

matching_table == [a \in TabulatedNames, b \in TabulatedNames |-> matching_size(a, b)]

\* ratio() >= 0.8, i.e. 2 * M / T >= 4 / 5 (an empty pair has ratio 1.0)
ratio_at_least_threshold(a, b) ==
    LET M == IF a \in TabulatedNames /\ b \in TabulatedNames
             THEN matching_table[a, b] ELSE matching_size(a, b)
    IN  5 * M >= 2 * (Len(a) + Len(b))

(***************************************************************************)
(* scrapers/base.py: ExtractedEventData.  description and venue are None   *)
(* or a string; an artist is [name, rank], a tier is [name, price];        *)
(* vip_info is [enabled, tiers, included].                                 *)
(***************************************************************************)
default_vip_info == [enabled |-> FALSE, tiers |-> <<>>, included |-> <<>>]

ExtractedEventData(description, venue, lineup, pricing_tiers, vip_info) ==
    [description |-> description, venue |-> venue, lineup |-> lineup,
     pricing_tiers |-> pricing_tiers, vip_info |-> vip_info]

\* ExtractedEventData() with the defaults of __post_init__
EmptyEventData == ExtractedEventData(JNull, JNull, <<>>, <<>>, default_vip_info)

has_data(d) ==
    \/ Truthy(d.description)
    \/ Truthy(d.venue)
    \/ Len(d.lineup) > 0
    \/ Len(d.pricing_tiers) > 0
    \/ d.vip_info.enabled

(***************************************************************************)
(* event_scraper.py: _select_best_description and _merge_results.          *)
(***************************************************************************)
description_min_length == 300

Digits == "0123456789"

IsDigit(c) == \E k \in 1..10 : Chr(Digits, k) = c

DigitValue(c) == (CHOOSE k \in 1..10 : Chr(Digits, k) = c) - 1

\* int() of the digits of s from position i up to the end of the run
RECURSIVE IntFrom(_, _, _)
IntFrom(s, i, acc) ==
    IF i > Len(s) \/ ~IsDigit(Chr(s, i)) THEN acc
    ELSE IntFrom(s, i + 1, 10 * acc + DigitValue(Chr(s, i)))

\* re.search(r'\d+', content): the first run of digits, as a number
search_number(content) ==
    LET at == {i \in 1..Len(content) : IsDigit(Chr(content, i))}
    IN  IF at = {} THEN [found |-> FALSE, n |-> 0]
        ELSE [found |-> TRUE,
              n |-> IntFrom(content, CHOOSE i \in at : \A j \in at : i <= j, 0)]

\* max(descriptions, key=len): the first of the longest
longest(descriptions) ==
    descriptions[CHOOSE i \in 1..Len(descriptions) :
        /\ \A j \in 1..Len(descriptions) : Len(descriptions[j]) <= Len(descriptions[i])
        /\ \A j \in 1..(i - 1) : Len(descriptions[j]) < Len(descriptions[i])]

\* lines 294-298: the cases decided without the LLM
selection_needs_llm(descriptions) == Len(descriptions) > 1

\* _select_best_description, r the reply of the completion it requests
select_best_description(descriptions, r) ==
    IF Len(descriptions) = 0 THEN ""
    ELSE IF Len(descriptions) = 1 THEN descriptions[1]
    ELSE IF r.kind = "error" THEN longest(descriptions)
    ELSE IF r.content.t # "str" THEN longest(descriptions)   \* None.strip() raises
    ELSE LET match == search_number(Strip(r.content.s))
             index == match.n - 1
         IN  IF match.found /\ 0 <= index /\ index < Len(descriptions)
             THEN descriptions[index + 1]
             ELSE longest(descriptions)

\* [r.description for r in results if r.description and len(r.description) >= n]
descriptions_of(results, n) ==
    LET kept == SelectSeq(results, LAMBDA r :
                    Truthy(r.description) /\ Len(r.description.s) >= n)
    IN  [k \in 1..Len(kept) |-> kept[k].description.s]

\* lines 195-198 without the length threshold
description_candidates_all(results) == descriptions_of(results, 0)

\* lines 195-198: the descriptions handed to the selection
description_candidates(results) ==
    IF Len(descriptions_of(results, description_min_length)) > 0
    THEN descriptions_of(results, description_min_length)
    ELSE descriptions_of(results, 0)

\* lines 204-207
merge_venue(results) ==
    LET kept == SelectSeq(results, LAMBDA r : Truthy(r.venue))
    IN  IF Len(kept) > 0 THEN kept[Len(kept)].venue ELSE JNull

\* the concatenation of the lists of a sequence of lists
RECURSIVE Concat(_)
Concat(lists) ==
    IF Len(lists) = 0 THEN <<>> ELSE Head(lists) \o Concat(Tail(lists))

\* keep the first entry of every key, drop the entries with an empty key;
\* keys[k] is the key of items[k]
RECURSIVE dedup_by_key(_, _, _, _)
dedup_by_key(items, keys, k, seen) ==
    IF k > Len(items) THEN <<>>
    ELSE IF keys[k] # "" /\ keys[k] \notin seen
         THEN <<items[k]>> \o dedup_by_key(items, keys, k + 1, seen \cup {keys[k]})
         ELSE dedup_by_key(items, keys, k + 1, seen)

artist_key(artist) == Strip(Lower(artist.name))

\* the lineup merge of the earlier design: ranks reassigned by position
merge_lineup_renumbered(results) ==
    LET artists == Concat([k \in 1..Len(results) |-> results[k].lineup])
        kept == dedup_by_key(artists, [k \in 1..Len(artists) |-> artist_key(artists[k])], 1, {})
    IN  [k \in 1..Len(kept) |-> [kept[k] EXCEPT !.rank = k]]

\* lines 210-220
merge_lineup(results) ==
    LET artists == Concat([k \in 1..Len(results) |-> results[k].lineup])
    IN  dedup_by_key(artists, [k \in 1..Len(artists) |-> artist_key(artists[k])], 1, {})

\* lines 231-237: a tier already kept has a name at least 0.8 similar
is_duplicate(tier_name, all_tiers) ==
    \E k \in 1..Len(all_tiers) :
        ratio_at_least_threshold(Lower(tier_name), Lower(Strip(all_tiers[k].name)))

\* lines 226-240: one turn of the inner loop
add_tier(all_tiers, tier) ==
    LET tier_name == Strip(tier.name)
    IN  IF tier_name = "" THEN all_tiers
        ELSE IF is_duplicate(tier_name, all_tiers) THEN all_tiers
        ELSE <<tier>> \o all_tiers

\* lines 225-240: the tiers of one source, in their order
RECURSIVE add_tiers(_, _, _)
add_tiers(all_tiers, tiers, k) ==
    IF k > Len(tiers) THEN all_tiers
    ELSE add_tiers(add_tier(all_tiers, tiers[k]), tiers, k + 1)

\* lines 223-240: the sources from the last to the first
RECURSIVE merge_tiers(_, _, _)
merge_tiers(all_tiers, tier_lists, s) ==
    IF s < 1 THEN all_tiers
    ELSE merge_tiers(add_tiers(all_tiers, tier_lists[s], 1), tier_lists, s - 1)

merge_pricing(results) ==
    merge_tiers(<<>>, [k \in 1..Len(results) |-> results[k].pricing_tiers], Len(results))

included_key(item) == Strip(Lower(item))

\* lines 244-278
merge_vip(results) ==
    LET enabled == SelectSeq(results, LAMBDA r : r.vip_info.enabled)
        items == Concat([k \in 1..Len(enabled) |-> enabled[k].vip_info.included])
    IN  IF Len(enabled) > 0
        THEN [enabled |-> TRUE,
              tiers |-> merge_tiers(<<>>, [k \in 1..Len(enabled) |-> enabled[k].vip_info.tiers],
                                    Len(enabled)),
              included |-> dedup_by_key(
                  items, [k \in 1..Len(items) |-> included_key(items[k])], 1, {})]
        ELSE default_vip_info

\* _merge_results, r the reply of the completion the description selection
\* requests (when it requests one)
merge_results(results, r) ==
    LET descriptions == description_candidates(results)
    IN  ExtractedEventData(
            IF Len(descriptions) > 0
            THEN JStr(select_best_description(descriptions, r)) ELSE JNull,
            merge_venue(results),
            merge_lineup(results),
            merge_pricing(results),
            merge_vip(results))

(***************************************************************************)
(* event_scraper.py: URL normalisation and provider expansion.             *)
(***************************************************************************)
StartsWith(s, p) == Len(s) >= Len(p) /\ SubSeq(s, 1, Len(p)) = p

EndsWith(s, p) == Len(s) >= Len(p) /\ SubSeq(s, Len(s) - Len(p) + 1, Len(s)) = p

\* s.split(c)[0]: s up to the first c
BeforeFirst(s, c) ==
    LET at == {i \in 1..Len(s) : Chr(s, i) = c}
    IN  IF at = {} THEN s
        ELSE SubSeq(s, 1, (CHOOSE i \in at : \A j \in at : i <= j) - 1)

\* s.rstrip(c)
RECURSIVE RStrip(_, _)
RStrip(s, c) ==
    IF Len(s) > 0 /\ Chr(s, Len(s)) = c THEN RStrip(SubSeq(s, 1, Len(s) - 1), c) ELSE s

\* _normalize_url
normalize_url(url) ==
    LET stripped == Strip(url)
        no_query == IF Contains(stripped, "?") THEN BeforeFirst(stripped, "?") ELSE stripped
    IN  IF StartsWith(no_query, "http://") \/ StartsWith(no_query, "https://")
        THEN no_query ELSE "https://" \o no_query

\* lines 162-177 from the k-th URL on, expanded being the list built so far
RECURSIVE transform_from(_, _, _)
transform_from(list, k, expanded) ==
    IF k > Len(list) THEN expanded
    ELSE LET normalized == normalize_url(list[k])
             appended == Append(expanded, normalized)
         IN  IF Contains(Lower(normalized), "flicket.co.nz")
             THEN IF EndsWith(normalized, "/reservation")
                  THEN transform_from(list, k + 1,
                           <<SubSeq(normalized, 1, Len(normalized) - Len("/reservation"))>>
                               \o appended)
                  ELSE transform_from(list, k + 1,
                           Append(appended, RStrip(normalized, "/") \o "/reservation"))
             ELSE transform_from(list, k + 1, appended)

\* _transform_urls_for_provider
transform_urls_for_provider(list) == transform_from(list, 1, <<>>)

(***************************************************************************)
(* The per-URL extraction.  An outcome says what happened to the page:     *)
(* the fetch failed or timed out or the page could not be parsed (all      *)
(* inside LLMScraper.extract), a scraper let an exception escape, or the   *)
(* extraction went through and produced a record.                          *)
(***************************************************************************)
Failed(kind) == [kind |-> kind, data |-> EmptyEventData]

Extracted(data) == [kind |-> "ok", data |-> data]

\* LLMScraper.extract and its try/except (llm_scraper.py lines 38-66); an
\* exception escapes only from a scraper without that handler
scraper_extract(o) ==
    IF o.kind = "scraper_exception" THEN Raise
    ELSE IF o.kind \in {"fetch_error", "timeout", "parse_error"} THEN Ret(EmptyEventData)
    ELSE Ret(o.data)

\* extract_from_url (lines 56-83) with its single scraper
extract_from_url(o) ==
    LET result == scraper_extract(o)
    IN  IF result.raised THEN Ret(EmptyEventData)
        ELSE IF has_data(result.v) THEN Ret(result.v)
        ELSE Ret(EmptyEventData)

\* safe_extract (lines 109-115): None for a source without data
safe_extract(o) ==
    LET result == extract_from_url(o)
    IN  IF result.raised THEN JNull
        ELSE IF has_data(result.v) THEN result.v ELSE JNull

\* asyncio.gather when it hands the results back as the tasks complete
gather_as_completed(by_task, order) == [k \in 1..Len(order) |-> by_task[order[k]]]

\* asyncio.gather (line 118): the results in the order of the tasks,
\* whatever the order in which they completed
gather(by_task, order) == by_task

\* line 121
without_none(list) == SelectSeq(list, LAMBDA r : r # JNull)

(***************************************************************************)
(* event_scraper.py: the cache.  The md5 digest of the key string is       *)
(* taken to be collision free, so the key is the string that is hashed.    *)
(***************************************************************************)
cache_ttl == 3600

\* the printable ASCII characters in code point order, without the grave
\* accent (code 96, between the two halves)
AsciiLow == " !\"#$%&'()*+,-./0123456789:;<=>?@ABCDEFGHIJKLMNOPQRSTUVWXYZ[\\]^_"

AsciiHigh == "abcdefghijklmnopqrstuvwxyz{|}~"

\* ord(c)
Ord(c) ==
    IF \E k \in 1..Len(AsciiLow) : Chr(AsciiLow, k) = c
    THEN 31 + (CHOOSE k \in 1..Len(AsciiLow) : Chr(AsciiLow, k) = c)
    ELSE 96 + (CHOOSE k \in 1..Len(AsciiHigh) : Chr(AsciiHigh, k) = c)

\* a < b for Python strings: by code point at the first difference, a
\* proper prefix first
StrLess(a, b) ==
    LET n == Min(Len(a), Len(b))
        diff == {i \in 1..n : Chr(a, i) # Chr(b, i)}
    IN  IF diff = {} THEN Len(a) < Len(b)
        ELSE LET i == CHOOSE x \in diff : \A y \in diff : x <= y
             IN  Ord(Chr(a, i)) < Ord(Chr(b, i))

\* x put into the sorted list at its place
RECURSIVE insert_sorted(_, _)
insert_sorted(list, x) ==
    IF Len(list) = 0 THEN <<x>>
    ELSE IF StrLess(x, Head(list)) THEN <<x>> \o list
    ELSE <<Head(list)>> \o insert_sorted(Tail(list), x)

\* sorted(list)
RECURSIVE sorted(_)
sorted(list) ==
    IF Len(list) = 0 THEN <<>>
    ELSE insert_sorted(sorted(SubSeq(list, 1, Len(list) - 1)), list[Len(list)])

\* "".join(list)
RECURSIVE join(_)
join(list) == IF Len(list) = 0 THEN "" ELSE Head(list) \o join(Tail(list))

\* _get_cache_key
get_cache_key(list) == join(sorted(list))

\* _get_from_cache: the result, if any, and the cache after the lookup
get_from_cache(store, key, time) ==
    IF key \in DOMAIN store
    THEN IF time - store[key].timestamp < cache_ttl
         THEN [hit |-> TRUE, result |-> store[key].result, cache |-> store]
         ELSE [hit |-> FALSE, result |-> EmptyEventData,
               cache |-> [k \in DOMAIN store \ {key} |-> store[k]]]
    ELSE [hit |-> FALSE, result |-> EmptyEventData, cache |-> store]

\* _set_cache
set_cache(store, key, time, result) ==
    [k \in DOMAIN store \cup {key} |->
        IF k = key THEN [timestamp |-> time, result |-> result] ELSE store[k]]

(***************************************************************************)
(* llm_scraper.py: the choice between the plain-HTTP request and the       *)
(* headless browser.                                                       *)
(***************************************************************************)
js_domains == {"flicket.co.nz", "eventbrite.com", "dice.fm", "humanitix.com"}

\* _is_known_js_site: a domain name occurs somewhere in the lower-cased URL
is_known_js_site(url) == \E domain \in js_domains : Contains(Lower(url), domain)

min_paragraphs == 3

min_body_text == 500

\* _needs_browser_rendering, on what the patterns of lines 139-145 find
needs_browser_rendering(page) ==
    LET has_react_shell == page.reactroot \/ page.next
    IN  has_react_shell /\ (page.paragraph_count < min_paragraphs
                            \/ page.body_text_length < min_body_text)

(***************************************************************************)
(* generate_survey_questions as a state machine.  The positions are the    *)
(* points where the method waits for the LLM client.                       *)
(***************************************************************************)
VARIABLES
    context,            \* the request
    pc,                 \* "start", "generate", "validate", "refine", "done"
    context_analysis,   \* result of _analyze_context
    questions_data,     \* the sections structure in hand
    validation_result,  \* the verdict of call #2
    all_questions,      \* the flat list of raw questions
    calls,              \* the completions requested so far, with their replies
    status,             \* "running", "returned" or "raised"
    via,                \* which return statement produced the result
    result              \* the list returned to the caller

pvars == <<context, pc, context_analysis, questions_data, validation_result,
           all_questions, calls, status, via, result>>

(***************************************************************************)
(* The state of an EventScraper and of its running extract_from_urls.      *)
(***************************************************************************)
VARIABLES
    urls,               \* the argument of extract_from_urls
    spc,                \* "idle", "extracting", "merging", "merged", "returned"
    expanded_urls,      \* the URLs after the provider expansion
    outcomes,           \* what happened to each per-URL extraction
    extraction_results, \* what each safe_extract returned, by task
    finished,           \* the tasks in the order in which they ended
    results,            \* the list handed to _merge_results
    select_calls,       \* the completions the description selection requested
    merged,             \* the record _merge_results built
    cache,              \* self._cache
    now,                \* time.time()
    ticks,              \* how often the clock has advanced
    history,            \* the calls of extract_from_urls so far
    returned            \* how the last call ended, and its value

svars == <<urls, spc, expanded_urls, outcomes, extraction_results, finished,
           results, select_calls, merged, cache, now, ticks, history, returned>>

(***************************************************************************)
(* The state of an LLMScraper fetching one page.                           *)
(***************************************************************************)
VARIABLES
    fetch_url,          \* the argument of _fetch_html
    fetch_pc,           \* "idle", "requesting", "rendering", "fetched", "raised"
    fetch_requests,     \* the requests issued so far: "http", "browser"
    http_html,          \* what the plain-HTTP request returned
    html                \* what _fetch_html returns

fvars == <<fetch_url, fetch_pc, fetch_requests, http_html, html>>

(***************************************************************************)
(* The pulse tables of the database, the Instagram DMs sent, and the       *)
(* workers handling webhook deliveries.                                    *)
(***************************************************************************)
VARIABLES
    instagram_app_secret,   \* settings.instagram_app_secret
    pulse_questions,        \* table pulse_questions of the pulse, by "order"
    pulse_conversations,    \* table pulse_conversations, in insertion order
    pulse_responses,        \* table pulse_responses, in insertion order
    sent_dms,               \* the calls of InstagramClient.send_dm
    last_message,           \* the message_text of the last handle_incoming_message
    last_result,            \* what the last handle_incoming_message returned
    workers,                \* each worker's position in process_message_event
    webhook_requests        \* the POST /instagram/webhook requests received

cvars == <<instagram_app_secret, pulse_questions, pulse_conversations,
           pulse_responses, sent_dms, last_message, last_result, workers,
           webhook_requests>>

vars == <<pvars, svars, fvars, cvars>>

\* the workers that handle message events
Workers == {"worker-1", "worker-2"}

NoResult == [action |-> "none", message |-> JNull]

NoConversation ==
    [id |-> 0, pulse_id |-> "", instagram_user_id |-> "", instagram_username |-> JNull,
     status |-> "", current_question_index |-> 0, submission_id |-> 0]

\* a worker that handles no event
IdleWorker ==
    [pc |-> "idle", event |-> "", sender_id |-> "", message_text |-> "",
     post_id |-> "", active_pulses |-> <<>>, pulse_id |-> "",
     conversation |-> NoConversation, questions |-> <<>>, response_text |-> "",
     result |-> NoResult]

\* no pulse conversation has taken place and no delivery is being handled
PulseIdle ==
    /\ instagram_app_secret = ""
    /\ pulse_questions = <<>>
    /\ pulse_conversations = <<>>
    /\ pulse_responses = <<>>
    /\ sent_dms = <<>>
    /\ last_message = ""
    /\ last_result = NoResult
    /\ workers = [w \in Workers |-> IdleWorker]
    /\ webhook_requests = <<>>

NotReturned == [how |-> "none", v |-> EmptyEventData]

\* what _needs_browser_rendering reads off a page: whether it contains
\* 'data-reactroot', whether it contains '__next', the number of matches of
\* the paragraph pattern in its body, the length of its body without tags
Page(reactroot, next, paragraph_count, body_text_length) ==
    [reactroot |-> reactroot, next |-> next, paragraph_count |-> paragraph_count,
     body_text_length |-> body_text_length]

NoPage == Page(FALSE, FALSE, 0, 0)

\* an EventScraper after __init__ (lines 52-54), no call running
ScraperIdle ==
    /\ urls = <<>>
    /\ spc = "idle"
    /\ expanded_urls = <<>>
    /\ outcomes = <<>>
    /\ extraction_results = <<>>
    /\ finished = <<>>
    /\ results = <<>>
    /\ select_calls = <<>>
    /\ merged = EmptyEventData
    /\ cache = <<>>
    /\ now = 0
    /\ ticks = 0
    /\ history = <<>>
    /\ returned = NotReturned
    /\ fetch_url = ""
    /\ fetch_pc = "idle"
    /\ fetch_requests = <<>>
    /\ http_html = NoPage
    /\ html = NoPage

NoAnalysis == [event_name |-> "", must_have_goals |-> <<>>, interested_goals |-> <<>>,
               target_question_count |-> 0, required_questions |-> <<>>]

InitWith(contexts) ==
    /\ context \in contexts
    /\ pc = "start"
    /\ context_analysis = NoAnalysis
    /\ questions_data = JNull
    /\ validation_result = JNull
    /\ all_questions = <<>>
    /\ calls = <<>>
    /\ status = "running"
    /\ via = "none"
    /\ result = <<>>
    /\ ScraperIdle
    /\ PulseIdle

Init == InitWith(PipelineContexts)

\* what a run of the try body ends in: a return value or an exception
Returned(list, how) == [raised |-> FALSE, v |-> list, via |-> how]

\* a handler that lets the exception escape to the caller
ExceptReraise(body, ctx) ==
    IF body.raised THEN [status |-> "raised", via |-> "none", result |-> <<>>]
    ELSE [status |-> "returned", via |-> body.via, result |-> body.v]

\* the try/except of generate_survey_questions (lines 64, 97-102)
TryExcept(body, ctx) ==
    IF body.raised
    THEN [status |-> "returned", via |-> "except", result |-> get_fallback_questions(ctx)]
    ELSE [status |-> "returned", via |-> body.via, result |-> body.v]

\* the method ends with the outcome of the try body
Finish(body) ==
    LET out == TryExcept(body, context)
    IN  /\ pc' = "done"
        /\ status' = out.status
        /\ via' = out.via
        /\ result' = out.result

\* line 95: normalize the flat list and return it
ValidateAndReturn(questions) ==
    LET validated == validate_questions(questions)
    IN  IF validated.raised THEN Raise ELSE Returned(validated.v, "normalized")

\* lines 65-69
Analyze ==
    /\ pc = "start"
    /\ context_analysis' = analyze_context(context)
    /\ pc' = "generate"
    /\ UNCHANGED <<context, questions_data, validation_result, all_questions,
                   calls, status, via, result>>

\* lines 71-77 when an empty result is answered by asking the LLM again
GenerateRetry(r) ==
    /\ pc = "generate"
    /\ calls' = Append(calls, [name |-> "generate", reply |-> r])
    /\ LET data == generate_questions_with_llm(r)
       IN  /\ questions_data' = data
           /\ IF data.t = "obj" /\ Truthy(Get(data, "sections", JNull))
              THEN pc' = "validate"
              ELSE pc' = "generate"
    /\ UNCHANGED <<context, context_analysis, validation_result, all_questions,
                   status, via, result>>

\* lines 71-77 without the check of line 75
GenerateUnchecked(r) ==
    /\ pc = "generate"
    /\ calls' = Append(calls, [name |-> "generate", reply |-> r])
    /\ LET data == generate_questions_with_llm(r)
       IN  /\ questions_data' = data
           /\ IF data.t # "obj"
              THEN Finish(Raise)
              ELSE /\ pc' = "validate"
                   /\ UNCHANGED <<status, via, result>>
    /\ UNCHANGED <<context, context_analysis, validation_result, all_questions>>

\* lines 71-77: LLM call #1 and the check of its result
Generate(r) ==
    /\ pc = "generate"
    /\ calls' = Append(calls, [name |-> "generate", reply |-> r])
    /\ LET data == generate_questions_with_llm(r)
       IN  /\ questions_data' = data
           /\ IF ~Truthy(data)
              THEN Finish(Returned(get_fallback_questions(context), "fallback"))
              ELSE IF data.t # "obj"
              THEN Finish(Raise)     \* questions_data.get on a list or a string
              ELSE IF ~Truthy(Get(data, "sections", JNull))
              THEN Finish(Returned(get_fallback_questions(context), "fallback"))
              ELSE /\ pc' = "validate"
                   /\ UNCHANGED <<status, via, result>>
    /\ UNCHANGED <<context, context_analysis, validation_result, all_questions>>

\* lines 79-88 and, when the verdict passes, line 95
Validate(r) ==
    /\ pc = "validate"
    /\ calls' = Append(calls, [name |-> "validate", reply |-> r])
    /\ LET verdict == validate_response(r)
           flat == flatten_sections(Get(questions_data, "sections", JNull))
       IN  /\ validation_result' = verdict
           /\ IF flat.raised
              THEN /\ Finish(Raise)
                   /\ UNCHANGED all_questions
              ELSE /\ all_questions' = flat.v
                   /\ IF verdict.t # "obj"
                      THEN Finish(Raise)   \* validation_result.get on a non-dict
                      ELSE IF ~Truthy(Get(verdict, "validation_passed", JBool(FALSE)))
                      THEN /\ pc' = "refine"
                           /\ UNCHANGED <<status, via, result>>
                      ELSE Finish(ValidateAndReturn(flat.v))
    /\ UNCHANGED <<context, context_analysis, questions_data>>

\* lines 89-95: LLM call #3, re-flatten, normalize
Refine(r) ==
    /\ pc = "refine"
    /\ calls' = Append(calls, [name |-> "refine", reply |-> r])
    /\ LET data == refine_questions(questions_data, r)
           flat == flatten_sections(Get(data, "sections", JList(<<>>)))
       IN  /\ questions_data' = data
           /\ IF flat.raised
              THEN /\ Finish(Raise)
                   /\ UNCHANGED all_questions
              ELSE /\ all_questions' = flat.v
                   /\ Finish(ValidateAndReturn(flat.v))
    /\ UNCHANGED <<context, context_analysis, validation_result>>

Next ==
    \/ Analyze /\ UNCHANGED <<svars, fvars, cvars>>
    \/ \E r \in GenerateReplies : Generate(r) /\ UNCHANGED <<svars, fvars, cvars>>
    \/ \E r \in ValidateReplies : Validate(r) /\ UNCHANGED <<svars, fvars, cvars>>
    \/ \E r \in RefineReplies : Refine(r) /\ UNCHANGED <<svars, fvars, cvars>>

Spec == Init /\ [][Next]_vars

(***************************************************************************)
(* The context analysis on its own, over all bucket sizes.                 *)
(***************************************************************************)
InitAnalysis == InitWith(AnalysisContexts)

NextAnalysis == Analyze /\ UNCHANGED <<svars, fvars, cvars>>

SpecAnalysis == InitAnalysis /\ [][NextAnalysis]_vars

(***************************************************************************)
(* The normalizer on its own, over all raw question lists.                 *)
(***************************************************************************)
InitNormalizer ==
    /\ context \in {Context(0, 0, "Summer Fest")}
    /\ pc = "normalize"
    /\ context_analysis = NoAnalysis
    /\ questions_data = JNull
    /\ validation_result = JNull
    /\ all_questions \in ListsOver(RawQuestions, MaxQuestions)
    /\ calls = <<>>
    /\ status = "running"
    /\ via = "none"
    /\ result = <<>>
    /\ ScraperIdle
    /\ PulseIdle

\* a call of _validate_questions: an exception of the loop escapes
Normalize ==
    /\ pc = "normalize"
    /\ LET validated == validate_questions(all_questions)
       IN  /\ status' = IF validated.raised THEN "raised" ELSE "returned"
           /\ via' = IF validated.raised THEN "none" ELSE "normalized"
           /\ result' = IF validated.raised THEN <<>> ELSE validated.v
    /\ pc' = "done"
    /\ UNCHANGED <<context, context_analysis, questions_data, validation_result,
                   all_questions, calls>>

\* a dict of the normalizer's output as the normalizer reads it when it is
\* handed the list again
AsRaw(q) ==
    JObj([question_text |-> JStr(q.question_text),
          question_type |-> JStr(q.question_type),
          options |-> q.options,
          required |-> JBool(q.required),
          order |-> JNum(q.order)])

AsRawList(list) == [k \in 1..Len(list) |-> AsRaw(list[k])]

\* a second call of _validate_questions, on the list the first call returned
Renormalize ==
    /\ pc = "done"
    /\ status = "returned"
    /\ via = "normalized"
    /\ all_questions' = AsRawList(result)
    /\ LET validated == validate_questions(AsRawList(result))
       IN  /\ status' = IF validated.raised THEN "raised" ELSE "returned"
           /\ result' = IF validated.raised THEN <<>> ELSE validated.v
    /\ pc' = "renormalized"
    /\ UNCHANGED <<context, context_analysis, questions_data, validation_result,
                   calls, via>>

NextNormalizer ==
    \/ Normalize /\ UNCHANGED <<svars, fvars, cvars>>
    \/ Renormalize /\ UNCHANGED <<svars, fvars, cvars>>

SpecNormalizer == InitNormalizer /\ [][NextNormalizer]_vars

(***************************************************************************)
(* _merge_results on its own, over lists of per-URL extraction results.    *)
(***************************************************************************)
MaxSources == 3

\* an LLMService on which no generate_survey_questions is running
PipelineIdle ==
    /\ context = Context(0, 0, "Summer Fest")
    /\ pc = "start"
    /\ context_analysis = NoAnalysis
    /\ questions_data = JNull
    /\ validation_result = JNull
    /\ all_questions = <<>>
    /\ calls = <<>>
    /\ status = "running"
    /\ via = "none"
    /\ result = <<>>

\* n dots
RECURSIVE Dots(_)
Dots(n) ==
    IF n <= 0 THEN ""
    ELSE IF n % 2 = 0 THEN LET half == Dots(n \div 2) IN half \o half
    ELSE "." \o Dots(n - 1)

\* text followed by dots up to n characters
Padded(text, n) == text \o Dots(n - Len(text))

Artist(name, rank) == [name |-> name, rank |-> rank]

Tier(name, price) == [name |-> name, price |-> price]

\* an event page: long description, two tiers, VIP
BasePage ==
    ExtractedEventData(
        JStr(Padded("Three stages, local acts and food trucks", 400)),
        JStr("Town Hall"),
        <<Artist("DJ Aroha", 1), Artist("The Band", 2)>>,
        <<Tier("Early Bird", "$10"), Tier("VIP", "$50")>>,
        [enabled |-> TRUE, tiers |-> <<Tier("VIP Gold", "$90")>>,
         included |-> <<"Lounge access">>])

\* a ticketing page: legal text, near-duplicate tier names
TicketPage ==
    ExtractedEventData(
        JStr(Padded("Terms and conditions of sale", 450)),
        JStr("Town Hall, Auckland"),
        <<Artist(" dj aroha", 1)>>,
        <<Tier("Earlybird", "$12"), Tier("General Admission", "$20"),
          Tier("First Release", "$15")>>,
        default_vip_info)

\* a page whose description is a truncated meta tag
MetaPage ==
    ExtractedEventData(
        JStr(Padded("Tickets on sale now", 50)),
        JNull,
        <<>>,
        <<Tier("Tier Release", "$15"), Tier("  ", "$5")>>,
        default_vip_info)

\* empty strings where nothing was found, VIP tiers without VIP enabled
SparsePage ==
    ExtractedEventData(
        JStr(""),
        JStr(""),
        <<Artist("The Band", 1), Artist("", 2)>>,
        <<Tier("GA", "$20")>>,
        [enabled |-> FALSE, tiers |-> <<Tier("VIP Gold", "$90")>>, included |-> <<>>])

\* a second long description, as long as the first; VIP
PromoPage ==
    ExtractedEventData(
        JStr(Padded("A night of music under the stars", 400)),
        JNull,
        <<>>,
        <<Tier("EARLY BIRD ", "$11")>>,
        [enabled |-> TRUE,
         tiers |-> <<Tier("Vip gold", "$95"), Tier("Backstage", "$150")>>,
         included |-> <<"lounge access ", "Free drink">>])

\* a short description only
TeaserPage ==
    ExtractedEventData(
        JStr(Padded("Doors open at seven, come early", 120)),
        JStr("The Loft"),
        <<>>,
        <<>>,
        default_vip_info)

MergeSources == {BasePage, TicketPage, MetaPage, SparsePage, PromoPage, TeaserPage}

\* the non-empty lists extract_from_urls can hand to _merge_results
ResultLists == ListsOver(MergeSources, MaxSources) \ {<<>>}

\* the replies to the completion of the description selection
SelectReplies ==
    {ApiError, Reply(JNull)}
    \cup {Reply(JStr(c)) : c \in {"2", " 1\n", "The best is 3.", "none of them", "0", "12"}}

InitMerge ==
    /\ PipelineIdle
    /\ urls = <<>>
    /\ spc = "merging"
    /\ expanded_urls = <<>>
    /\ outcomes = <<>>
    /\ extraction_results = <<>>
    /\ finished = <<>>
    /\ results \in ResultLists
    /\ select_calls = <<>>
    /\ merged = EmptyEventData
    /\ cache = <<>>
    /\ now = 0
    /\ ticks = 0
    /\ history = <<>>
    /\ returned = NotReturned
    /\ fetch_url = ""
    /\ fetch_pc = "idle"
    /\ fetch_requests = <<>>
    /\ http_html = NoPage
    /\ html = NoPage
    /\ PulseIdle

\* the completions _merge_results requests when r is the reply it gets
selection_calls(list, r) ==
    IF selection_needs_llm(description_candidates(list))
    THEN <<[name |-> "select", reply |-> r]>> ELSE <<>>

\* a call of _merge_results
MergeResults(r) ==
    /\ spc = "merging"
    /\ merged' = merge_results(results, r)
    /\ select_calls' = selection_calls(results, r)
    /\ spc' = "merged"
    /\ UNCHANGED <<urls, expanded_urls, outcomes, extraction_results, finished,
                   results, cache, now, ticks, history, returned>>

NextMerge == (\E r \in SelectReplies : MergeResults(r)) /\ UNCHANGED <<pvars, fvars, cvars>>

SpecMerge == InitMerge /\ [][NextMerge]_vars

(***************************************************************************)
(* extract_from_urls with its per-URL extractions running concurrently:    *)
(* a call starts, the tasks end one by one in any order, and when all      *)
(* have ended the results are gathered, merged, cached and returned.       *)
(***************************************************************************)
Pending == [t |-> "pending"]

\* the URL lists of the calls
ScraperUrlLists == {
    <<>>,
    <<"example.com/gig?utm=1">>,
    <<" example.com/gig", "https://tickets.example.com/gig">>,
    <<"https://flicket.co.nz/e/1">>,
    <<"https://www.flicket.co.nz/e/1/reservation">>,
    <<"example.com/gig", "https://flicket.co.nz/e/1/">> }

\* what can happen to one per-URL extraction
Outcomes ==
    {Failed(kind) : kind \in {"fetch_error", "timeout", "parse_error", "scraper_exception"}}
    \cup {Extracted(data) : data \in {BasePage, TicketPage, MetaPage, EmptyEventData}}

InitScraper == PipelineIdle /\ ScraperIdle /\ PulseIdle

\* how many calls of extract_from_urls one scraper receives
MaxRequests == 2

\* how often the clock advances
MaxTicks == 2

\* the record of a call: its URLs, the time of its cache lookup, how it
\* ended, the time and the value of its return, and the URLs it extracted
\* from with what each of them yielded
Call(list, time, how, v) ==
    [urls |-> list, at |-> time, how |-> how, ended |-> time, result |-> v,
     expanded |-> <<>>, yielded |-> <<>>]

\* the call in progress has ended
Ended(how, time, v) ==
    [history EXCEPT ![Len(history)] =
        [@ EXCEPT !.how = how, !.ended = time, !.result = v,
                  !.expanded = expanded_urls, !.yielded = outcomes']]

\* lines 95-117: the empty call, the cache lookup, the expansion, the tasks
StartExtraction(list) ==
    /\ spc = "idle"
    /\ Len(history) < MaxRequests
    /\ urls' = list
    /\ IF Len(list) = 0
       THEN /\ returned' = [how |-> "empty", v |-> EmptyEventData]
            /\ history' = Append(history, Call(list, now, "empty", EmptyEventData))
            /\ spc' = "returned"
            /\ UNCHANGED <<expanded_urls, outcomes, extraction_results, cache>>
       ELSE LET cached == get_from_cache(cache, get_cache_key(list), now)
            IN  /\ cache' = cached.cache
                /\ IF cached.hit
                   THEN /\ returned' = [how |-> "cache", v |-> cached.result]
                        /\ history' = Append(history, Call(list, now, "cache", cached.result))
                        /\ spc' = "returned"
                        /\ UNCHANGED <<expanded_urls, outcomes, extraction_results>>
                   ELSE /\ history' = Append(history, Call(list, now, "pending", EmptyEventData))
                        /\ expanded_urls' = transform_urls_for_provider(list)
                        /\ outcomes' = [k \in 1..Len(transform_urls_for_provider(list)) |-> Pending]
                        /\ extraction_results' =
                               [k \in 1..Len(transform_urls_for_provider(list)) |-> Pending]
                        /\ spc' = "extracting"
                        /\ UNCHANGED returned
    /\ UNCHANGED <<finished, results, select_calls, merged, now, ticks>>

\* a task whose failure is not caught: the exception ends the whole call
CompleteUnsafe(i, o) ==
    /\ spc = "extracting"
    /\ i \in 1..Len(extraction_results)
    /\ extraction_results[i] = Pending
    /\ outcomes' = [outcomes EXCEPT ![i] = o]
    /\ extraction_results' = [extraction_results EXCEPT ![i] = safe_extract(o)]
    /\ finished' = Append(finished, i)
    /\ IF o.kind # "ok"
       THEN /\ spc' = "returned"
            /\ returned' = [how |-> "raised", v |-> EmptyEventData]
            /\ history' = Ended("raised", now, EmptyEventData)
       ELSE UNCHANGED <<spc, returned, history>>
    /\ UNCHANGED <<urls, expanded_urls, results, select_calls, merged, cache, now, ticks>>

\* lines 109-115: the task of the i-th URL ends, o is what happened to it
Complete(i, o) ==
    /\ spc = "extracting"
    /\ i \in 1..Len(extraction_results)
    /\ extraction_results[i] = Pending
    /\ outcomes' = [outcomes EXCEPT ![i] = o]
    /\ extraction_results' = [extraction_results EXCEPT ![i] = safe_extract(o)]
    /\ finished' = Append(finished, i)
    /\ UNCHANGED <<urls, spc, expanded_urls, results, select_calls, merged, cache, now,
                   ticks, history, returned>>

\* lines 118-131: all tasks have ended; r is the reply to the description
\* selection, should the merge request one
GatherAndMerge(r) ==
    /\ spc = "extracting"
    /\ \A k \in 1..Len(extraction_results) : extraction_results[k] # Pending
    /\ results' = without_none(gather(extraction_results, finished))
    /\ IF Len(results') = 0
       THEN /\ returned' = [how |-> "empty", v |-> EmptyEventData]
            /\ UNCHANGED <<merged, select_calls, cache>>
       ELSE /\ merged' = merge_results(results', r)
            /\ select_calls' = selection_calls(results', r)
            /\ cache' = set_cache(cache, get_cache_key(urls), now, merged')
            /\ returned' = [how |-> "merged", v |-> merged']
    /\ UNCHANGED <<urls, expanded_urls, outcomes, extraction_results, finished, now, ticks>>
    /\ history' = Ended(returned'.how, now, returned'.v)
    /\ spc' = "returned"

\* the replies to the description selection of these calls
ScraperReplies == {ApiError, Reply(JStr("2"))}

NextScraper ==
    \/ \E list \in ScraperUrlLists : StartExtraction(list) /\ UNCHANGED <<pvars, fvars, cvars>>
    \/ \E i \in 1..3, o \in Outcomes : Complete(i, o) /\ UNCHANGED <<pvars, fvars, cvars>>
    \/ \E r \in ScraperReplies : GatherAndMerge(r) /\ UNCHANGED <<pvars, fvars, cvars>>

SpecScraper == InitScraper /\ [][NextScraper]_vars

(***************************************************************************)
(* One EventScraper serving several calls of extract_from_urls one after   *)
(* the other while the clock advances: the cache across calls.             *)
(***************************************************************************)
\* the URL lists of the calls: two URLs in both orders, one URL that is
\* the two written without a separator, one URL alone and twice
CacheUrlLists == {
    <<"example.com/a", "example.com/b">>,
    <<"example.com/b", "example.com/a">>,
    <<"example.com/aexample.com/b">>,
    <<"example.com/a">>,
    <<"example.com/a", "example.com/a">> }

\* what can happen to one per-URL extraction of these calls
CacheOutcomes == {Failed("timeout"), Extracted(TeaserPage)}

\* the steps of the clock, in seconds
ClockSteps == {1, cache_ttl - 1}

\* the caller has the value of the call; the scraper is ready for the next
CallReturns ==
    /\ spc = "returned"
    /\ spc' = "idle"
    /\ urls' = <<>>
    /\ expanded_urls' = <<>>
    /\ outcomes' = <<>>
    /\ extraction_results' = <<>>
    /\ finished' = <<>>
    /\ results' = <<>>
    /\ select_calls' = <<>>
    /\ merged' = EmptyEventData
    /\ returned' = NotReturned
    /\ UNCHANGED <<cache, now, ticks, history>>

\* time.time() advances by d seconds between two calls
Tick(d) ==
    /\ ticks < MaxTicks
    /\ spc = "idle"
    /\ now' = now + d
    /\ ticks' = ticks + 1
    /\ UNCHANGED <<urls, spc, expanded_urls, outcomes, extraction_results, finished,
                   results, select_calls, merged, cache, history, returned>>

NextCache ==
    \/ \E list \in CacheUrlLists : StartExtraction(list) /\ UNCHANGED <<pvars, fvars, cvars>>
    \/ \E i \in 1..2, o \in CacheOutcomes : Complete(i, o) /\ UNCHANGED <<pvars, fvars, cvars>>
    \/ GatherAndMerge(ApiError) /\ UNCHANGED <<pvars, fvars, cvars>>
    \/ CallReturns /\ UNCHANGED <<pvars, fvars, cvars>>
    \/ \E d \in ClockSteps : Tick(d) /\ UNCHANGED <<pvars, fvars, cvars>>

SpecCache == InitScraper /\ [][NextCache]_vars

(***************************************************************************)
(* _fetch_html: one page is fetched, by the plain-HTTP client, by the      *)
(* headless browser, or by the first and then the second.                  *)
(***************************************************************************)
\* the URLs fetched: on the four known domains (one in upper case, one on
\* a subdomain), on other hosts, and on other hosts with the name of a
\* known domain in the path or inside the host name
FetchUrls == {
    "https://flicket.co.nz/e/1",
    "https://www.eventbrite.com/e/2",
    "https://DICE.FM/event/3",
    "https://events.humanitix.com/gig",
    "https://example.com/gig",
    "http://venue.org/whats-on",
    "https://linktr.ee/dice.fm",
    "https://noteventbrite.com/e/2" }

\* the pages a request can return
Pages ==
    {Page(reactroot, next, paragraph_count, body_text_length) :
        reactroot \in BOOLEAN, next \in BOOLEAN,
        paragraph_count \in {0, min_paragraphs - 1, min_paragraphs},
        body_text_length \in {0, min_body_text - 1, min_body_text}}

\* lines 87-93: the known JS sites go to the browser, the others to httpx
Fetch(url) ==
    /\ fetch_pc = "idle"
    /\ fetch_url' = url
    /\ fetch_pc' = IF is_known_js_site(url) THEN "rendering" ELSE "requesting"
    /\ UNCHANGED <<fetch_requests, http_html, html>>

\* lines 93-99 and _fetch_html_simple: the plain-HTTP request returns page
SimpleReturns(page) ==
    /\ fetch_pc = "requesting"
    /\ fetch_requests' = Append(fetch_requests, "http")
    /\ http_html' = page
    /\ html' = page
    /\ fetch_pc' = IF needs_browser_rendering(page) THEN "rendering" ELSE "fetched"
    /\ UNCHANGED fetch_url

\* client.get or raise_for_status raises (lines 107-108)
SimpleRaises ==
    /\ fetch_pc = "requesting"
    /\ fetch_requests' = Append(fetch_requests, "http")
    /\ fetch_pc' = "raised"
    /\ UNCHANGED <<fetch_url, http_html, html>>

\* _fetch_html_with_browser returns the rendered page
BrowserReturns(page) ==
    /\ fetch_pc = "rendering"
    /\ fetch_requests' = Append(fetch_requests, "browser")
    /\ html' = page
    /\ fetch_pc' = "fetched"
    /\ UNCHANGED <<fetch_url, http_html>>

\* the browser raises (launch, goto timeout)
BrowserRaises ==
    /\ fetch_pc = "rendering"
    /\ fetch_requests' = Append(fetch_requests, "browser")
    /\ fetch_pc' = "raised"
    /\ UNCHANGED <<fetch_url, http_html, html>>

NextFetch ==
    \/ \E url \in FetchUrls : Fetch(url) /\ UNCHANGED <<pvars, svars, cvars>>
    \/ \E page \in Pages : SimpleReturns(page) /\ UNCHANGED <<pvars, svars, cvars>>
    \/ SimpleRaises /\ UNCHANGED <<pvars, svars, cvars>>
    \/ \E page \in Pages : BrowserReturns(page) /\ UNCHANGED <<pvars, svars, cvars>>
    \/ BrowserRaises /\ UNCHANGED <<pvars, svars, cvars>>

SpecFetch == InitScraper /\ [][NextFetch]_vars

(***************************************************************************)
(* _transform_urls_for_provider on its own: the expansion of every URL     *)
(* list of up to MaxUrls URLs.                                             *)
(***************************************************************************)
\* longest URL list handed to the expansion on its own
MaxUrls == 2

\* a ticketing event page as the caller may write it, its /reservation
\* companion, another event, and pages of other sites
ExpansionUrls == {
    "https://flicket.co.nz/e/1",
    "https://flicket.co.nz/e/1/",
    "https://flicket.co.nz/e/1/reservation",
    "flicket.co.nz/e/1?ref=ig",
    "https://www.Flicket.co.nz/e/2/reservation",
    "https://flicket.co.nz/e/2",
    "example.com/gig",
    "https://example.com/gig?utm=1",
    " https://tickets.example.com/gig ",
    "http://venue.org/whats-on" }

\* line 106: the expansion of the URLs of a call
Expand(list) ==
    /\ spc = "idle"
    /\ urls' = list
    /\ expanded_urls' = transform_urls_for_provider(list)
    /\ spc' = "expanded"
    /\ UNCHANGED <<outcomes, extraction_results, finished, results, select_calls,
                   merged, cache, now, ticks, history, returned>>

NextExpansion ==
    \E list \in ListsOver(ExpansionUrls, MaxUrls) : Expand(list) /\ UNCHANGED <<pvars, fvars, cvars>>

SpecExpansion == InitScraper /\ [][NextExpansion]_vars

(***************************************************************************)
(* One EventScraper asked for the same two pages in either order, the      *)
(* clock standing still: what a cache hit returns.                         *)
(***************************************************************************)
\* the two URLs in both orders
ReorderedUrlLists == {
    <<"example.com/a", "example.com/b">>,
    <<"example.com/b", "example.com/a">> }

\* what the extraction of one of the two pages can yield
PageOutcomes == {Failed("timeout"), Extracted(TeaserPage), Extracted(BasePage)}

NextCacheHit ==
    \/ \E list \in ReorderedUrlLists : StartExtraction(list) /\ UNCHANGED <<pvars, fvars, cvars>>
    \/ \E i \in 1..2, o \in PageOutcomes : Complete(i, o) /\ UNCHANGED <<pvars, fvars, cvars>>
    \/ GatherAndMerge(ApiError) /\ UNCHANGED <<pvars, fvars, cvars>>
    \/ CallReturns /\ UNCHANGED <<pvars, fvars, cvars>>

SpecCacheHit == InitScraper /\ [][NextCacheHit]_vars

(***************************************************************************)
(* pulse/conversation_handler.py: the survey conversation over DMs.        *)
(* A database is a record of the tables pulse_conversations and            *)
(* pulse_responses; row ids and the uuid4 submission ids are the row       *)
(* numbers; the column last_interaction_at is left out.                    *)
(***************************************************************************)
UpperTable ==
    [c \in {Chr(LowerAlpha, k) : k \in 1..26} |->
        Chr(UpperAlpha, CHOOSE k \in 1..26 : Chr(LowerAlpha, k) = c)]

RECURSIVE UpperFrom(_, _)
UpperFrom(s, i) ==
    IF i > Len(s) THEN ""
    ELSE (IF Chr(s, i) \in DOMAIN UpperTable THEN UpperTable[Chr(s, i)] ELSE Chr(s, i))
         \o UpperFrom(s, i + 1)

\* str.upper()
Upper(s) == UpperFrom(s, 1)

\* int(s) on a stripped text: an optional sign, then digits, single
\* underscores allowed between digits; ValueError otherwise
int(s) ==
    LET signed == Len(s) > 0 /\ Chr(s, 1) \in {"+", "-"}
        body   == IF signed THEN SubSeq(s, 2, Len(s)) ELSE s
        wellformed ==
            /\ Len(body) > 0
            /\ \A i \in 1..Len(body) : IsDigit(Chr(body, i)) \/ Chr(body, i) = "_"
            /\ IsDigit(Chr(body, 1)) /\ IsDigit(Chr(body, Len(body)))
            /\ \A i \in 1..(Len(body) - 1) : ~(Chr(body, i) = "_" /\ Chr(body, i + 1) = "_")
        digits == {i \in 1..Len(body) : IsDigit(Chr(body, i))}
        RECURSIVE value(_, _)
        value(i, acc) ==
            IF i > Len(body) THEN acc
            ELSE IF Chr(body, i) = "_" THEN value(i + 1, acc)
            ELSE value(i + 1, 10 * acc + DigitValue(Chr(body, i)))
    IN  IF ~wellformed THEN Raise
        ELSE Ret(IF signed /\ Chr(s, 1) = "-" THEN 0 - value(1, 0) ELSE value(1, 0))

accept_words == <<"YES", "Y", "OK", "OKAY", "SURE", "START">>

invitation_message ==
    "Hi! Would you like to participate in a quick survey? Reply YES to start."

Database(conversations, responses) ==
    [conversations |-> conversations, responses |-> responses]

\* supabase.table(...).select("*").eq("pulse_id", ...).eq("instagram_user_id", ...)
select_conversations(conversations, pulse_id, instagram_user_id) ==
    LET matches(c) == c.pulse_id = pulse_id /\ c.instagram_user_id = instagram_user_id
    IN  SelectSeq(conversations, matches)

\* the row _get_or_create_conversation inserts, as the database returns it
new_conversation(conversations, pulse_id, instagram_user_id, instagram_username) ==
    [id |-> Len(conversations) + 1, pulse_id |-> pulse_id,
     instagram_user_id |-> instagram_user_id,
     instagram_username |-> instagram_username,
     status |-> "invited", current_question_index |-> 0,
     submission_id |-> Len(conversations) + 1]

\* supabase.table("pulse_conversations").update(changes).eq("id", id)
update_conversation(conversations, id, changes) ==
    [k \in 1..Len(conversations) |->
        IF conversations[k].id = id
        THEN [f \in DOMAIN conversations[k] |->
                 IF f \in DOMAIN changes THEN changes[f] ELSE conversations[k][f]]
        ELSE conversations[k]]

\* the row _process_response inserts into pulse_responses
new_response(conversation, question, response_text) ==
    [pulse_id |-> conversation.pulse_id, question_id |-> question.id,
     submission_id |-> conversation.submission_id,
     instagram_user_id |-> conversation.instagram_user_id,
     instagram_username |-> conversation.instagram_username,
     response_text |-> response_text]

\* supabase.table("pulse_questions").select("*").eq("pulse_id", ...).order("order")
select_questions(questions, pulse_id) ==
    LET matches(q) == q.pulse_id = pulse_id IN SelectSeq(questions, matches)

\* _get_or_create_conversation: the database after it, and the row returned
get_or_create_conversation(db, pulse_id, instagram_user_id, instagram_username) ==
    LET found == select_conversations(db.conversations, pulse_id, instagram_user_id)
        row   == new_conversation(db.conversations, pulse_id, instagram_user_id,
                                  instagram_username)
    IN  IF Len(found) > 0 THEN [db |-> db, conversation |-> found[1]]
        ELSE [db |-> Database(Append(db.conversations, row), db.responses),
              conversation |-> row]

\* _format_question: the text of the DM, by its parts
format_question(question, question_num, total) ==
    [question_num |-> question_num, total |-> total,
     question_text |-> question.question_text,
     options |-> IF question.question_type = "Single-select" /\ Truthy(question.options)
                 THEN question.options.l ELSE <<>>]

\* _validate_response
validate_response_text(question, response_text) ==
    LET text == Strip(response_text)
        options == question.options.l
        number == int(text)
        same == {k \in 1..Len(options) : Lower(options[k]) = Lower(text)}
    IN  IF question.question_type = "Single-select"
        THEN IF ~Truthy(question.options)
             THEN [valid |-> TRUE, response_text |-> text]
             ELSE IF ~number.raised /\ 1 <= number.v /\ number.v <= Len(options)
             THEN [valid |-> TRUE, response_text |-> options[number.v]]
             ELSE IF same # {}
             THEN [valid |-> TRUE,
                   response_text |-> options[CHOOSE k \in same : \A j \in same : k <= j]]
             ELSE [valid |-> FALSE,
                   error |-> "Please reply with a valid option number or text."]
        ELSE IF text = ""
             THEN [valid |-> FALSE, error |-> "Please provide a response."]
             ELSE [valid |-> TRUE, response_text |-> text]

\* the outcome of a handler: the database after it and what it returned;
\* an exception leaves the writes made before it
Outcome(db, returns) == [db |-> db, result |-> returns]

Raised == [action |-> "raised", message |-> JNull]

\* _start_survey
start_survey(db, all_questions_rows, conversation) ==
    LET questions == select_questions(all_questions_rows, conversation.pulse_id)
    IN  IF Len(questions) = 0
        THEN Outcome(db, [action |-> "error",
                          message |-> "No questions found for this survey."])
        ELSE Outcome(
                Database(update_conversation(db.conversations, conversation.id,
                             [status |-> "in_progress", current_question_index |-> 0]),
                         db.responses),
                [action |-> "send_question",
                 message |-> [error |-> "", question |-> format_question(questions[1], 1, Len(questions))],
                 question_id |-> questions[1].id, question_index |-> 0])

\* a variant of _process_response that takes the survey to be complete one
\* question early
process_response_early(db, all_questions_rows, conversation, response_text) ==
    LET questions == select_questions(all_questions_rows, conversation.pulse_id)
        current_index == conversation.current_question_index
        current_question == questions[current_index + 1]
        validated_response == validate_response_text(current_question, response_text)
        next_index == current_index + 1
        saved == Append(db.responses,
                        new_response(conversation, current_question,
                                     validated_response.response_text))
    IN  IF current_index >= Len(questions) THEN Outcome(db, Raised)
        ELSE IF ~validated_response.valid
        THEN Outcome(db,
                [action |-> "send_question",
                 message |-> [error |-> validated_response.error,
                              question |-> format_question(current_question,
                                               current_index + 1, Len(questions))],
                 question_id |-> current_question.id, question_index |-> current_index])
        ELSE IF next_index + 1 >= Len(questions)
        THEN Outcome(
                Database(update_conversation(db.conversations, conversation.id,
                             [status |-> "completed"]), saved),
                [action |-> "complete",
                 message |-> "Thanks for participating! Your responses have been recorded."])
        ELSE Outcome(
                Database(update_conversation(db.conversations, conversation.id,
                             [current_question_index |-> next_index]), saved),
                [action |-> "send_question",
                 message |-> [error |-> "",
                              question |-> format_question(questions[next_index + 1],
                                               next_index + 1, Len(questions))],
                 question_id |-> questions[next_index + 1].id,
                 question_index |-> next_index])

\* _process_response; questions[current_index] raises IndexError when the
\* index is past the list
process_response(db, all_questions_rows, conversation, response_text) ==
    LET questions == select_questions(all_questions_rows, conversation.pulse_id)
        current_index == conversation.current_question_index
        current_question == questions[current_index + 1]
        validated_response == validate_response_text(current_question, response_text)
        next_index == current_index + 1
        saved == Append(db.responses,
                        new_response(conversation, current_question,
                                     validated_response.response_text))
    IN  IF current_index >= Len(questions) THEN Outcome(db, Raised)
        ELSE IF ~validated_response.valid
        THEN Outcome(db,
                [action |-> "send_question",
                 message |-> [error |-> validated_response.error,
                              question |-> format_question(current_question,
                                               current_index + 1, Len(questions))],
                 question_id |-> current_question.id, question_index |-> current_index])
        ELSE IF next_index >= Len(questions)
        THEN Outcome(
                Database(update_conversation(db.conversations, conversation.id,
                             [status |-> "completed"]), saved),
                [action |-> "complete",
                 message |-> "Thanks for participating! Your responses have been recorded."])
        ELSE Outcome(
                Database(update_conversation(db.conversations, conversation.id,
                             [current_question_index |-> next_index]), saved),
                [action |-> "send_question",
                 message |-> [error |-> "",
                              question |-> format_question(questions[next_index + 1],
                                               next_index + 1, Len(questions))],
                 question_id |-> questions[next_index + 1].id,
                 question_index |-> next_index])

\* handle_incoming_message
handle_incoming_message(db, all_questions_rows, pulse_id, sender_id, username, message_text) ==
    LET got == get_or_create_conversation(db, pulse_id, sender_id, username)
        conversation == got.conversation
    IN  IF conversation.status = "invited"
        THEN IF InSeq(Upper(Strip(message_text)), accept_words)
             THEN start_survey(got.db, all_questions_rows, conversation)
             ELSE Outcome(got.db, [action |-> "remind", message |-> invitation_message])
        ELSE IF conversation.status = "in_progress"
        THEN process_response(got.db, all_questions_rows, conversation, message_text)
        ELSE Outcome(got.db, [action |-> "ignore", message |-> JNull])

(***************************************************************************)
(* One Instagram user talking to one pulse, the messages handled one at a  *)
(* time: each step is a whole call of handle_incoming_message.             *)
(***************************************************************************)
MaxPulseQuestions == 2

\* the k-th question of the pulse: choice questions with and without
\* options, and free-text questions
QuestionRow(k) ==
    [id |-> k, pulse_id |-> "pulse-1", order |-> k - 1,
     question_text |-> "Question " \o Chr(Digits, (k % 10) + 1),
     question_type |-> IF k % 3 = 2 THEN "text" ELSE "Single-select",
     options |-> IF k % 3 = 1 THEN JList(<<"Rock", "Jazz">>) ELSE JNull]

QuestionRows(n) == [k \in 1..n |-> QuestionRow(k)]

MessageTexts == {"YES", " ok ", "no thanks", "2", "+1", "7", "jazz", " "}

\* the pulse has its questions and nobody has written yet
InitConversation ==
    /\ PipelineIdle
    /\ ScraperIdle
    /\ instagram_app_secret = ""
    /\ pulse_questions \in {QuestionRows(n) : n \in 0..MaxPulseQuestions}
    /\ pulse_conversations = <<>>
    /\ pulse_responses = <<>>
    /\ sent_dms = <<>>
    /\ last_message = ""
    /\ last_result = NoResult
    /\ workers = [w \in Workers |-> IdleWorker]
    /\ webhook_requests = <<>>

\* a call of handle_incoming_message
HandleIncomingMessage(pulse_id, instagram_user_id, message_text) ==
    LET out == handle_incoming_message(
                   Database(pulse_conversations, pulse_responses), pulse_questions,
                   pulse_id, instagram_user_id, JNull, message_text)
    IN  /\ pulse_conversations' = out.db.conversations
        /\ pulse_responses' = out.db.responses
        /\ last_message' = message_text
        /\ last_result' = out.result
        /\ UNCHANGED <<instagram_app_secret, pulse_questions, sent_dms, workers,
                       webhook_requests>>

NextConversation ==
    \E message_text \in MessageTexts :
        HandleIncomingMessage("pulse-1", "user-1", message_text)
        /\ UNCHANGED <<pvars, svars, fvars>>

SpecConversation == InitConversation /\ [][NextConversation]_vars

(***************************************************************************)
(* api/instagram.py: webhook events handled by concurrent workers.  Every  *)
(* step of a worker is one database read or write, or one send_dm, with    *)
(* the computation that follows it up to the next one.  Message events     *)
(* overlap freely; a comment event is handled while no other event is.    *)
(***************************************************************************)
MaxEvents == 4

\* the rows of table pulses
pulses ==
    <<[id |-> "pulse-1", instagram_post_id |-> "17801", status |-> "active"],
      [id |-> "pulse-2", instagram_post_id |-> "17802", status |-> "draft"]>>

WorkerTexts == {"YES", "2", "7"}

CommentedPosts == {"17801", "17802"}

\* the pulse has its questions and nobody has commented yet
InitWorkers ==
    /\ PipelineIdle
    /\ ScraperIdle
    /\ instagram_app_secret = ""
    /\ pulse_questions = QuestionRows(MaxPulseQuestions)
    /\ pulse_conversations = <<>>
    /\ pulse_responses = <<>>
    /\ sent_dms = <<>>
    /\ last_message = ""
    /\ last_result = NoResult
    /\ workers = [w \in Workers |-> IdleWorker]
    /\ webhook_requests = <<>>

\* handle_incoming_message from the conversation on (lines 39-59), and
\* send_invitation from the conversation on (lines 265-269): where the
\* worker goes next
with_conversation(worker, conversation) ==
    LET me == [worker EXCEPT !.conversation = conversation]
    IN  IF me.event = "comment" THEN [me EXCEPT !.pc = "send_invitation"]
        ELSE IF conversation.status = "invited"
        THEN IF InSeq(Upper(Strip(me.message_text)), accept_words)
             THEN [me EXCEPT !.pc = "start_questions"]
             ELSE [me EXCEPT !.pc = "send",
                             !.result = [action |-> "remind",
                                         message |-> invitation_message]]
        ELSE IF conversation.status = "in_progress"
        THEN [me EXCEPT !.pc = "process_questions"]
        ELSE IdleWorker

\* process_message_event, lines 233-241: the result is sent or not
with_result(worker, returns) ==
    IF returns.action \in {"send_question", "complete", "remind"}
    THEN [worker EXCEPT !.pc = "send", !.result = returns]
    ELSE IdleWorker

\* process_comment_event up to its query (lines 255-289)
ReceiveComment(w, post_id, user_id) ==
    /\ \A v \in Workers : workers[v].pc = "idle"
    /\ Len(webhook_requests) < MaxEvents
    /\ webhook_requests' = Append(webhook_requests, "comment")
    /\ workers' = [workers EXCEPT ![w] =
                      [IdleWorker EXCEPT !.pc = "select_pulse", !.event = "comment",
                                         !.post_id = post_id, !.sender_id = user_id]]
    /\ UNCHANGED <<instagram_app_secret, pulse_questions, pulse_conversations,
                   pulse_responses, sent_dms, last_message, last_result>>

\* process_comment_event, lines 291-303: the active pulse of the post
SelectPulseForPost(w) ==
    /\ workers[w].pc = "select_pulse"
    /\ LET matches(p) == p.instagram_post_id = workers[w].post_id /\ p.status = "active"
           found == SelectSeq(pulses, matches)
       IN  workers' = [workers EXCEPT ![w] =
                          IF Len(found) = 0 THEN IdleWorker
                          ELSE [@ EXCEPT !.pc = "select_conversation",
                                         !.pulse_id = found[1].id]]
    /\ UNCHANGED <<instagram_app_secret, pulse_questions, pulse_conversations,
                   pulse_responses, sent_dms, last_message, last_result,
                   webhook_requests>>

\* process_message_event up to its first query (lines 195-202)
ReceiveMessage(w, sender_id, message_text) ==
    /\ workers[w].pc = "idle"
    /\ \A v \in Workers : workers[v].event # "comment"
    /\ Len(webhook_requests) < MaxEvents
    /\ webhook_requests' = Append(webhook_requests, "message")
    /\ workers' = [workers EXCEPT ![w] =
                      IF sender_id = "" \/ message_text = "" THEN IdleWorker
                      ELSE [IdleWorker EXCEPT !.pc = "select_pulses", !.event = "message",
                                              !.sender_id = sender_id,
                                              !.message_text = message_text]]
    /\ UNCHANGED <<instagram_app_secret, pulse_questions, pulse_conversations,
                   pulse_responses, sent_dms, last_message, last_result>>

\* process_message_event, lines 208-212: the active pulses
SelectActivePulses(w) ==
    /\ workers[w].pc = "select_pulses"
    /\ LET active(p) == p.status = "active"
           found == SelectSeq(pulses, active)
       IN  workers' = [workers EXCEPT ![w] =
                          IF Len(found) = 0 THEN IdleWorker
                          ELSE [@ EXCEPT !.pc = "find_conversation",
                                         !.active_pulses = found]]
    /\ UNCHANGED <<instagram_app_secret, pulse_questions, pulse_conversations,
                   pulse_responses, sent_dms, last_message, last_result,
                   webhook_requests>>

\* process_message_event, lines 216-224: one round of the loop over the
\* active pulses
FindConversation(w) ==
    /\ workers[w].pc = "find_conversation"
    /\ LET pulse_id == workers[w].active_pulses[1].id
           found == select_conversations(pulse_conversations, pulse_id,
                                         workers[w].sender_id)
       IN  workers' = [workers EXCEPT ![w] =
                          IF Len(found) > 0
                          THEN [@ EXCEPT !.pc = "select_conversation",
                                         !.pulse_id = pulse_id]
                          ELSE IF Len(@.active_pulses) = 1 THEN IdleWorker
                          ELSE [@ EXCEPT !.active_pulses = Tail(@)]]
    /\ UNCHANGED <<instagram_app_secret, pulse_questions, pulse_conversations,
                   pulse_responses, sent_dms, last_message, last_result,
                   webhook_requests>>

\* _get_or_create_conversation, lines 68-74
SelectConversation(w) ==
    /\ workers[w].pc = "select_conversation"
    /\ LET found == select_conversations(pulse_conversations, workers[w].pulse_id,
                                         workers[w].sender_id)
       IN  workers' = [workers EXCEPT ![w] =
                          IF Len(found) > 0 THEN with_conversation(@, found[1])
                          ELSE [@ EXCEPT !.pc = "insert_conversation"]]
    /\ UNCHANGED <<instagram_app_secret, pulse_questions, pulse_conversations,
                   pulse_responses, sent_dms, last_message, last_result,
                   webhook_requests>>

\* _get_or_create_conversation, lines 76-88
InsertConversation(w) ==
    /\ workers[w].pc = "insert_conversation"
    /\ pulse_conversations' =
          Append(pulse_conversations,
                 new_conversation(pulse_conversations, workers[w].pulse_id,
                                  workers[w].sender_id, JNull))
    /\ workers' = [workers EXCEPT ![w] =
                      with_conversation(@, pulse_conversations'[Len(pulse_conversations')])]
    /\ UNCHANGED <<instagram_app_secret, pulse_questions, pulse_responses, sent_dms,
                   last_message, last_result, webhook_requests>>

\* send_invitation, lines 265-273
SendInvitationDm(w) ==
    /\ workers[w].pc = "send_invitation"
    /\ sent_dms' = Append(sent_dms, [recipient_id |-> workers[w].sender_id,
                                     message |-> invitation_message])
    /\ workers' = [workers EXCEPT ![w] = IdleWorker]
    /\ UNCHANGED <<instagram_app_secret, pulse_questions, pulse_conversations,
                   pulse_responses, last_message, last_result, webhook_requests>>

\* _start_survey, lines 92-104
StartSelectQuestions(w) ==
    /\ workers[w].pc = "start_questions"
    /\ LET questions == select_questions(pulse_questions, workers[w].conversation.pulse_id)
       IN  workers' = [workers EXCEPT ![w] =
                          IF Len(questions) = 0 THEN IdleWorker
                          ELSE [@ EXCEPT !.pc = "start_update", !.questions = questions]]
    /\ UNCHANGED <<instagram_app_secret, pulse_questions, pulse_conversations,
                   pulse_responses, sent_dms, last_message, last_result,
                   webhook_requests>>

\* _start_survey, lines 106-121
StartUpdate(w) ==
    /\ workers[w].pc = "start_update"
    /\ pulse_conversations' =
          update_conversation(pulse_conversations, workers[w].conversation.id,
                              [status |-> "in_progress", current_question_index |-> 0])
    /\ workers' = [workers EXCEPT ![w] =
                      with_result(@, start_survey(Database(pulse_conversations, pulse_responses),
                                                  @.questions, @.conversation).result)]
    /\ UNCHANGED <<instagram_app_secret, pulse_questions, pulse_responses, sent_dms,
                   last_message, last_result, webhook_requests>>

\* _process_response, lines 129-153
ProcessSelectQuestions(w) ==
    /\ workers[w].pc = "process_questions"
    /\ LET questions == select_questions(pulse_questions, workers[w].conversation.pulse_id)
           current_index == workers[w].conversation.current_question_index
           validated_response ==
               validate_response_text(questions[current_index + 1], workers[w].message_text)
       IN  workers' = [workers EXCEPT ![w] =
                          IF current_index >= Len(questions) THEN IdleWorker
                          ELSE IF ~validated_response.valid
                          THEN with_result(@, process_response(
                                                  Database(pulse_conversations, pulse_responses),
                                                  questions, @.conversation,
                                                  @.message_text).result)
                          ELSE [@ EXCEPT !.pc = "insert_response",
                                         !.questions = questions,
                                         !.response_text = validated_response.response_text]]
    /\ UNCHANGED <<instagram_app_secret, pulse_questions, pulse_conversations,
                   pulse_responses, sent_dms, last_message, last_result,
                   webhook_requests>>

\* _process_response, lines 155-167
InsertResponse(w) ==
    /\ workers[w].pc = "insert_response"
    /\ LET me == workers[w]
           current_index == me.conversation.current_question_index
       IN  /\ pulse_responses' =
                 Append(pulse_responses,
                        new_response(me.conversation, me.questions[current_index + 1],
                                     me.response_text))
           /\ workers' = [workers EXCEPT ![w] =
                             [@ EXCEPT !.pc = IF current_index + 1 >= Len(me.questions)
                                              THEN "complete_update" ELSE "index_update"]]
    /\ UNCHANGED <<instagram_app_secret, pulse_questions, pulse_conversations, sent_dms,
                   last_message, last_result, webhook_requests>>

\* _process_response, lines 168-177
CompleteUpdate(w) ==
    /\ workers[w].pc = "complete_update"
    /\ pulse_conversations' =
          update_conversation(pulse_conversations, workers[w].conversation.id,
                              [status |-> "completed"])
    /\ workers' = [workers EXCEPT ![w] =
                      with_result(@, process_response(
                                         Database(pulse_conversations, pulse_responses),
                                         @.questions, @.conversation, @.message_text).result)]
    /\ UNCHANGED <<instagram_app_secret, pulse_questions, pulse_responses, sent_dms,
                   last_message, last_result, webhook_requests>>

\* _process_response, lines 179-194
IndexUpdate(w) ==
    /\ workers[w].pc = "index_update"
    /\ pulse_conversations' =
          update_conversation(pulse_conversations, workers[w].conversation.id,
              [current_question_index |->
                  workers[w].conversation.current_question_index + 1])
    /\ workers' = [workers EXCEPT ![w] =
                      with_result(@, process_response(
                                         Database(pulse_conversations, pulse_responses),
                                         @.questions, @.conversation, @.message_text).result)]
    /\ UNCHANGED <<instagram_app_secret, pulse_questions, pulse_responses, sent_dms,
                   last_message, last_result, webhook_requests>>

\* process_message_event, lines 233-241
SendDm(w) ==
    /\ workers[w].pc = "send"
    /\ sent_dms' = Append(sent_dms, [recipient_id |-> workers[w].sender_id,
                                     message |-> workers[w].result.message])
    /\ workers' = [workers EXCEPT ![w] = IdleWorker]
    /\ UNCHANGED <<instagram_app_secret, pulse_questions, pulse_conversations,
                   pulse_responses, last_message, last_result, webhook_requests>>

NextWorkers ==
    \/ \E w \in Workers, post_id \in CommentedPosts :
          ReceiveComment(w, post_id, "user-1") /\ UNCHANGED <<pvars, svars, fvars>>
    \/ \E w \in Workers : SelectPulseForPost(w) /\ UNCHANGED <<pvars, svars, fvars>>
    \/ \E w \in Workers, message_text \in WorkerTexts :
          ReceiveMessage(w, "user-1", message_text) /\ UNCHANGED <<pvars, svars, fvars>>
    \/ \E w \in Workers : SelectActivePulses(w) /\ UNCHANGED <<pvars, svars, fvars>>
    \/ \E w \in Workers : FindConversation(w) /\ UNCHANGED <<pvars, svars, fvars>>
    \/ \E w \in Workers : SelectConversation(w) /\ UNCHANGED <<pvars, svars, fvars>>
    \/ \E w \in Workers : InsertConversation(w) /\ UNCHANGED <<pvars, svars, fvars>>
    \/ \E w \in Workers : SendInvitationDm(w) /\ UNCHANGED <<pvars, svars, fvars>>
    \/ \E w \in Workers : StartSelectQuestions(w) /\ UNCHANGED <<pvars, svars, fvars>>
    \/ \E w \in Workers : StartUpdate(w) /\ UNCHANGED <<pvars, svars, fvars>>
    \/ \E w \in Workers : ProcessSelectQuestions(w) /\ UNCHANGED <<pvars, svars, fvars>>
    \/ \E w \in Workers : InsertResponse(w) /\ UNCHANGED <<pvars, svars, fvars>>
    \/ \E w \in Workers : CompleteUpdate(w) /\ UNCHANGED <<pvars, svars, fvars>>
    \/ \E w \in Workers : IndexUpdate(w) /\ UNCHANGED <<pvars, svars, fvars>>
    \/ \E w \in Workers : SendDm(w) /\ UNCHANGED <<pvars, svars, fvars>>

SpecWorkers == InitWorkers /\ [][NextWorkers]_vars

(***************************************************************************)
(* api/instagram.py: POST /instagram/webhook, one request at a time.  A    *)
(* request is its X-Hub-Signature-256 header (JNull when the header is     *)
(* missing), its raw body and what request.json() makes of the body.       *)
(* A state of the outside world is the database and the DMs sent.         *)
(***************************************************************************)
\* hmac.new(key, payload, hashlib.sha256).hexdigest(): a text that is
\* different for different keys and payloads
hexdigest(key, payload) == "hmac-sha256(" \o key \o "," \o payload \o ")"

\* verify_webhook_signature
verify_webhook_signature(app_secret, payload, signature) ==
    IF app_secret = "" THEN FALSE
    ELSE IF ~StartsWith(signature, "sha256=") THEN FALSE
    ELSE hexdigest(app_secret, payload) = SubSeq(signature, 8, Len(signature))

World(db, dms) == [db |-> db, dms |-> dms]

\* d.get(key, default) on a record
GetOr(d, key, default) == IF key \in DOMAIN d THEN d[key] ELSE default

\* send_invitation
send_invitation(world, pulse_id, instagram_user_id, instagram_username) ==
    LET got == get_or_create_conversation(world.db, pulse_id, instagram_user_id,
                                          instagram_username)
    IN  World(got.db, Append(world.dms, [recipient_id |-> instagram_user_id,
                                         message |-> invitation_message]))

\* process_comment_event, for a comment that names its post under "media"
\* and its author under "from"
process_comment_event(world, comment) ==
    LET post_id == GetOr(GetOr(comment, "media", [id |-> ""]), "id", "")
        user_id == GetOr(GetOr(comment, "from", [id |-> ""]), "id", "")
        username == GetOr(GetOr(comment, "from", [id |-> ""]), "username", JNull)
        matches(p) == p.instagram_post_id = post_id /\ p.status = "active"
        found == SelectSeq(pulses, matches)
    IN  IF post_id = "" \/ user_id = "" THEN world
        ELSE IF Len(found) = 0 THEN world
        ELSE send_invitation(world, found[1].id, user_id, username)

\* process_message_event
process_message_event(world, event, questions) ==
    LET sender_id == GetOr(GetOr(event, "sender", [id |-> ""]), "id", "")
        message_text == GetOr(GetOr(event, "message", [text |-> ""]), "text", "")
        with_row == {k \in 1..Len(pulses) :
                        /\ pulses[k].status = "active"
                        /\ Len(select_conversations(world.db.conversations,
                                                    pulses[k].id, sender_id)) > 0}
        pulse_id == pulses[CHOOSE k \in with_row : \A j \in with_row : k <= j].id
        out == handle_incoming_message(world.db, questions, pulse_id, sender_id,
                                       JNull, message_text)
    IN  IF sender_id = "" \/ message_text = "" THEN world
        ELSE IF with_row = {} THEN world
        ELSE World(out.db,
                   IF out.result.action \in {"send_question", "complete", "remind"}
                   THEN Append(world.dms, [recipient_id |-> sender_id,
                                           message |-> out.result.message])
                   ELSE world.dms)

RECURSIVE process_messaging(_, _, _, _)
\* the loop of process_webhook_entry over the messaging events (lines 155-159)
process_messaging(world, messaging, k, questions) ==
    IF k > Len(messaging) THEN world
    ELSE process_messaging(process_message_event(world, messaging[k], questions),
                           messaging, k + 1, questions)

RECURSIVE process_changes(_, _, _)
\* the loop of process_webhook_entry over the changes (lines 162-174)
process_changes(world, changes, k) ==
    IF k > Len(changes) THEN world
    ELSE process_changes(
             IF GetOr(changes[k], "field", "") = "comments"
             THEN process_comment_event(world, GetOr(changes[k], "value", <<>>))
             ELSE world,
             changes, k + 1)

RECURSIVE process_comments(_, _, _)
\* the loop of process_webhook_entry over the legacy comments (lines 177-181)
process_comments(world, comments, k) ==
    IF k > Len(comments) THEN world
    ELSE process_comments(process_comment_event(world, comments[k]), comments, k + 1)

\* process_webhook_entry
process_webhook_entry(world, entry, questions) ==
    process_comments(
        process_changes(
            process_messaging(world, GetOr(entry, "messaging", <<>>), 1, questions),
            GetOr(entry, "changes", <<>>), 1),
        GetOr(entry, "comments", <<>>), 1)

RECURSIVE process_entries(_, _, _, _, _)
\* the loops of handle_webhook over the entries (lines 113-133)
process_entries(world, object_type, entries, k, questions) ==
    IF k > Len(entries) THEN world
    ELSE process_entries(
             process_webhook_entry(
                 world,
                 IF object_type = "page" /\ "instagram" \in DOMAIN entries[k]
                 THEN entries[k].instagram ELSE entries[k],
                 questions),
             object_type, entries, k + 1, questions)

\* handle_webhook: the world after the request
handle_webhook(world, app_secret, request, questions) ==
    IF /\ Truthy(request.signature)
       /\ ~verify_webhook_signature(app_secret, request.body, request.signature.s)
    THEN world
    ELSE IF request.json.raised THEN world
    ELSE process_entries(world, GetOr(request.json.v, "object", JNull),
                         GetOr(request.json.v, "entry", <<>>), 1, questions)

MaxDeliveries == 3

\* the app secret Meta signs the deliveries with
AppSecret == "s3cret"

Signed(body, data) ==
    [signature |-> JStr("sha256=" \o hexdigest(AppSecret, body)), body |-> body,
     json |-> data]

Unsigned(body, data) == [signature |-> JNull, body |-> body, json |-> data]

SignedAs(signature, body, data) ==
    [signature |-> JStr(signature), body |-> body, json |-> data]

MessageEvent(text) ==
    [sender |-> [id |-> "user-1"], recipient |-> [id |-> "page-1"],
     message |-> [text |-> text]]

CommentBody ==
    Ret([object |-> "instagram",
         entry |-> <<[changes |-> <<[field |-> "comments",
                                     value |-> [media |-> [id |-> "17801"],
                                                from |-> [id |-> "user-1",
                                                          username |-> JStr("fan")],
                                                text |-> "info"]]>>]>>])

MessageBody(text) ==
    Ret([object |-> "instagram", entry |-> <<[messaging |-> <<MessageEvent(text)>>]>>])

PageBody ==
    Ret([object |-> "page",
         entry |-> <<[instagram |-> [messaging |-> <<MessageEvent("ok"),
                                                     MessageEvent("rock")>>]]>>])

OtherBody == Ret([object |-> "user", entry |-> <<[messaging |-> <<MessageEvent("7")>>]>>])

\* the requests that reach the endpoint: deliveries of Meta, and requests
\* of anyone else, without a signature or with one that does not verify
WebhookRequests ==
    {Signed("comment", CommentBody),
     Signed("yes", MessageBody("YES")),
     Signed("two", MessageBody("2")),
     Signed("page", PageBody),
     Signed("{", Raise),
     Unsigned("comment", CommentBody),
     Unsigned("two", MessageBody("2")),
     SignedAs("", "yes", MessageBody("YES")),
     SignedAs("sha256=" \o hexdigest("guess", "two"), "two", MessageBody("2")),
     SignedAs(hexdigest(AppSecret, "two"), "two", MessageBody("2")),
     SignedAs("sha256=" \o hexdigest(AppSecret, "two"), "yes", MessageBody("YES")),
     Unsigned("other", OtherBody)}

\* the service is configured, with or without the app secret, and no
\* request has arrived
InitWebhook ==
    /\ PipelineIdle
    /\ ScraperIdle
    /\ instagram_app_secret \in {"", AppSecret}
    /\ pulse_questions = QuestionRows(MaxPulseQuestions)
    /\ pulse_conversations = <<>>
    /\ pulse_responses = <<>>
    /\ sent_dms = <<>>
    /\ last_message = ""
    /\ last_result = NoResult
    /\ workers = [w \in Workers |-> IdleWorker]
    /\ webhook_requests = <<>>

\* a request to POST /instagram/webhook, handled to its end
HandleWebhook(request) ==
    /\ Len(webhook_requests) < MaxDeliveries
    /\ webhook_requests' = Append(webhook_requests, request)
    /\ LET after == handle_webhook(
                        World(Database(pulse_conversations, pulse_responses), sent_dms),
                        instagram_app_secret, request, pulse_questions)
       IN  /\ pulse_conversations' = after.db.conversations
           /\ pulse_responses' = after.db.responses
           /\ sent_dms' = after.dms
    /\ UNCHANGED <<instagram_app_secret, pulse_questions, last_message, last_result,
                   workers>>

NextWebhook ==
    \E request \in WebhookRequests :
        HandleWebhook(request) /\ UNCHANGED <<pvars, svars, fvars>>

SpecWebhook == InitWebhook /\ [][NextWebhook]_vars

(***************************************************************************)
(* Vocabulary of the properties.                                           *)
(***************************************************************************)
CallNames == [k \in 1..Len(calls) |-> calls[k].name]

\* the two letters are the same letter of the alphabet, in either case
SameLetter(a, b) ==
    \/ a = b
    \/ \E k \in 1..26 : {a, b} \subseteq {Chr(UpperAlpha, k), Chr(LowerAlpha, k)}

EqualsIgnoreCase(a, b) ==
    /\ Len(a) = Len(b)
    /\ \A i \in 1..Len(a) : SameLetter(Chr(a, i), Chr(b, i))

\* a content that holds no non-empty sections structure: not JSON and no
\* JSON array inside, a JSON scalar, an array naming a key instead of
\* holding questions, an object whose "sections" is empty or null, or an
\* object with neither "sections" nor "questions"
NoSectionsIn(c) ==
    \/ c.c = "none"
    \/ c.c = "text" /\ c.bracket.t # "list"
    \/ c.c = "json" /\ c.v.t \in {"null", "bool", "num", "str"}
    \/ c.c = "json" /\ c.v.t = "list"
         /\ (InSeq(JStr("sections"), c.v.l) \/ InSeq(JStr("questions"), c.v.l))
    \/ c.c = "json" /\ c.v.t = "obj" /\ HasKey(c.v, "sections")
         /\ ~Truthy(c.v.o.sections)
    \/ c.c = "json" /\ c.v.t = "obj" /\ ~HasKey(c.v, "sections")
         /\ ~HasKey(c.v, "questions")
         /\ ~(c.fence = "undecodable" /\ c.bracket.t = "list")

\* the reply raised, was empty, or holds no non-empty sections structure
Unusable(r) == r.kind = "error" \/ NoSectionsIn(r.content)

\* the reply to call #2 raised, was empty, or is not a JSON document
VerdictUnparseable(r) == r.kind = "error" \/ r.content.c \in {"none", "text"}

\* the normalization of the questions a reply to call #1 carries
NormalizationOf(r) ==
    LET data == generate_questions_with_llm(r)
        flat == IF data.t = "obj"
                THEN flatten_sections(Get(data, "sections", JNull)) ELSE Raise
    IN  IF flat.raised THEN Raise ELSE validate_questions(flat.v)

\* the position of the method, counted in completed stages
Rank(p) ==
    CASE p = "start" -> 0 [] p = "generate" -> 1 [] p = "validate" -> 2
      [] p = "refine" -> 3 [] OTHER -> 4

RequiredPrefix(name) == <<
    "Do you have any accessibility requirements we should know about for " \o name \o "?",
    "Is there anything else you'd like us to know about your expectations for " \o name \o "?" >>

\* the similarity test of the merge: ratio of the trimmed, lower-cased names
Similar(a, b) == ratio_at_least_threshold(Lower(Strip(a)), Lower(Strip(b)))

\* the last source that lists the tier
SourceOf(tier) ==
    LET from == {s \in 1..Len(results) : InSeq(tier, results[s].pricing_tiers)}
    IN  CHOOSE s \in from : \A x \in from : x <= s

\* the non-empty descriptions of the sources, in source order
NonEmptyDescriptions ==
    LET kept == SelectSeq(results, LAMBDA r : r.description.t = "str" /\ r.description.s # "")
    IN  [k \in 1..Len(kept) |-> kept[k].description.s]

\* the candidates of the description merge: the descriptions of 300
\* characters or more, or every non-empty one when there is none
Candidates ==
    LET long == SelectSeq(NonEmptyDescriptions, LAMBDA d : Len(d) >= 300)
    IN  IF Len(long) > 0 THEN long ELSE NonEmptyDescriptions

\* the reply to the selection raised, has no content, names no number or
\* names a number outside 1..n
SelectionFailed(r, n) ==
    \/ r.kind = "error"
    \/ r.content.t # "str"
    \/ ~search_number(r.content.s).found
    \/ search_number(r.content.s).n \notin 1..n

(***************************************************************************)
(* C1.  For every combination of outcomes of the three LLM calls the call  *)
(* of generate_survey_questions ends by returning a list; no exception     *)
(* reaches the caller.                                                     *)
(***************************************************************************)
\* C1: no exception escapes, the method ends exactly by returning a list,
\* and every step brings it at least one stage closer to its end
C1_AlwaysReturnsList ==
    /\ [](/\ status # "raised"
          /\ pc = "done" <=> status = "returned")
    /\ [][Rank(pc') > Rank(pc)]_vars

\* a run in which the except handler turned an exception of the second
\* stage into the returned list
C1_Witness ==
    /\ pc = "done" /\ status = "returned" /\ via = "except"
    /\ Len(calls) = 2 /\ Len(result) > 0

C3_NeverEmpty == status = "returned" => Len(result) > 0

(***************************************************************************)
(* C4.  At most three LLM calls are issued, generate, validate and refine  *)
(* at most once each and in that order; validate only after generate       *)
(* returned a non-empty sections structure, refine only after validate     *)
(* returned its verdict.                                                   *)
(***************************************************************************)
C4_CallOrder ==
    /\ Len(calls) <= 3
    /\ \A k \in 1..Len(calls) : calls[k].name = <<"generate", "validate", "refine">>[k]
    /\ Len(calls) >= 2 =>
          LET data == generate_questions_with_llm(calls[1].reply)
          IN  data.t = "obj" /\ Truthy(Get(data, "sections", JNull))
    /\ Len(calls) = 3 => validation_result = validate_response(calls[2].reply)

C4_Witness == pc = "done" /\ CallNames = <<"generate", "validate", "refine">>

C6_RefineOnlyOnFalse ==
    /\ Len(calls) = 3 =>
          /\ validation_result.t = "obj"
          /\ HasKey(validation_result, "validation_passed")
          /\ validation_result.o.validation_passed = JBool(FALSE)
    /\ (Len(calls) >= 2 /\ validation_result.t = "obj"
            /\ ~HasKey(validation_result, "validation_passed")) => pc # "refine"

C8_TargetCountClamped ==
    pc # "start" =>
        LET m == Len(context.goals_must_have)
            i == Len(context.goals_interested)
            raw == 4 * m + 2 * i
            t == context_analysis.target_question_count
        IN  /\ t = (IF raw < 10 THEN 10 ELSE IF raw > 25 THEN 25 ELSE raw)
            /\ 10 <= t /\ t <= 25
            /\ (m = 1 /\ i = 1) => t = 10

C8_Witness ==
    /\ pc = "generate"
    /\ Len(context.goals_must_have) = 1 /\ Len(context.goals_interested) = 1
    /\ context_analysis.target_question_count = 10

(***************************************************************************)
(* C9.  Every Likert question of a returned list, normalized or fallback,  *)
(* has exactly the five-point scale as options, whatever the LLM supplied. *)
(***************************************************************************)
C9_LikertScale ==
    \A k \in 1..Len(result) :
        result[k].question_type = "Likert" =>
            result[k].options =
                JList(<<"Strongly Disagree", "Disagree", "Neutral", "Agree", "Strongly Agree">>)

\* the LLM's Likert question came with the options 1, 2, 3
C9_Witness ==
    /\ pc = "done" /\ via = "normalized"
    /\ \E k \in 1..Len(result) :
          /\ result[k].question_type = "Likert"
          /\ result[k].question_text = "Are you excited?"

(***************************************************************************)
(* C10.  No question in the output of the normalizer has a text that,      *)
(* trimmed, equals the text of a universal question ignoring case.         *)
(***************************************************************************)
C10_NoUniversalText ==
    (pc = "done" /\ status = "returned") =>
        \A k \in 1..Len(result) : \A u \in 1..Len(UNIVERSAL_QUESTIONS) :
            ~EqualsIgnoreCase(Strip(result[k].question_text),
                              UNIVERSAL_QUESTIONS[u].question_text)

\* the padded upper-case "FIRST NAME" was among the candidates and another
\* candidate was kept
C10_Witness ==
    /\ pc = "done" /\ status = "returned"
    /\ \E k \in 1..Len(all_questions) :
          /\ all_questions[k].t = "obj"
          /\ Get(all_questions[k], "question_text", JNull) = JStr("  FIRST NAME ")
    /\ Len(result) = 1

(***************************************************************************)
(* C11.  Normalization is idempotent: normalizing the normalizer's output  *)
(* again yields the identical list in every field, order included, also    *)
(* when the first pass dropped questions.                                  *)
(***************************************************************************)
\* C11: after the second pass (all_questions holds the output of the first
\* one) the result equals the first output, field by field
C11_Idempotent ==
    pc = "renormalized" =>
        /\ status = "returned"
        /\ AsRawList(result) = all_questions

(***************************************************************************)
(* C20.  The order field of every output question of the normalizer is its *)
(* position in the surviving sequence, from 0 and without gaps.            *)
(***************************************************************************)
\* C20: order of the k-th surviving question is k - 1
C20_OrderIsPosition ==
    (pc = "done" /\ status = "returned" /\ via = "normalized") =>
        \A k \in 1..Len(result) : result[k].order = k - 1

(***************************************************************************)
(* C12.  Merging a list of one ExtractedEventData returns a record equal   *)
(* to that element in every field, pricing tiers in the same order, also   *)
(* when the element has two or more pricing tiers.                         *)
(***************************************************************************)
\* C12: the merge of a single-element list is that element
C12_SingleUnchanged ==
    (spc = "merged" /\ Len(results) = 1) => merged = results[1]

(***************************************************************************)
(* C13.  No two merged pricing tiers have names with a case-insensitive    *)
(* similarity ratio of 0.8 or more, and every named input tier is retained *)
(* or is at least 0.8 similar to a retained tier.                          *)
(***************************************************************************)
\* C13: the merged tiers are pairwise dissimilar and cover every input tier
C13_FuzzyDedup ==
    spc = "merged" =>
        LET kept == merged.pricing_tiers
        IN  /\ \A i, j \in 1..Len(kept) :
                  i # j => ~Similar(kept[i].name, kept[j].name)
            /\ \A s \in 1..Len(results) : \A k \in 1..Len(results[s].pricing_tiers) :
                  LET tier == results[s].pricing_tiers[k]
                  IN  Strip(tier.name) # "" =>
                          \/ InSeq(tier, kept)
                          \/ \E m \in 1..Len(kept) : Similar(tier.name, kept[m].name)

(***************************************************************************)
(* C14.  In the merged pricing tiers the tiers of the last source come     *)
(* first: a retained tier of a later source precedes every retained tier   *)
(* of an earlier source.                                                   *)
(***************************************************************************)
\* C14: along the merged tiers the source index never increases
C14_TicketingFirst ==
    spc = "merged" =>
        LET kept == merged.pricing_tiers
        IN  \A i, j \in 1..Len(kept) :
                i < j => SourceOf(kept[i]) >= SourceOf(kept[j])

(***************************************************************************)
(* C18.  Descriptions under 300 characters are not candidates unless no    *)
(* source has one of 300 or more (then all non-empty ones are); the merged *)
(* description is one of the candidates, and it is the longest candidate   *)
(* when the LLM selection raises, names no number or names a number        *)
(* outside 1..n.                                                           *)
(***************************************************************************)
\* C18: the merged description is a candidate, the longest one when the
\* selection failed
C18_DescriptionSelection ==
    spc = "merged" =>
        /\ Len(Candidates) = 0 => merged.description = JNull
        /\ Len(Candidates) > 0 =>
              /\ merged.description.t = "str"
              /\ InSeq(merged.description.s, Candidates)
        /\ (Len(select_calls) > 0 /\ SelectionFailed(select_calls[1].reply, Len(Candidates))) =>
              /\ merged.description.t = "str"
              /\ \A k \in 1..Len(Candidates) :
                    Len(Candidates[k]) <= Len(merged.description.s)

\* a short description is left out, the selection is asked about the long
\* ones and fails, the longest is taken
C18_Witness ==
    /\ spc = "merged"
    /\ \E s \in 1..Len(results) :
          /\ Truthy(results[s].description)
          /\ Len(results[s].description.s) < description_min_length
    /\ Len(Candidates) >= 2
    /\ Len(select_calls) = 1
    /\ SelectionFailed(select_calls[1].reply, Len(Candidates))
    /\ \E k \in 1..Len(Candidates) : Len(Candidates[k]) < Len(merged.description.s)

(***************************************************************************)
(* C15.  A failure of one source never ends the call with an exception:    *)
(* the failing source contributes nothing, the data of the others is       *)
(* merged, and when no source yields data the call returns the empty       *)
(* record.                                                                 *)
(***************************************************************************)
\* the tasks that have ended with a record that has data, in task order
YieldingTasks ==
    SelectSeq([k \in 1..Len(outcomes) |-> k],
              LAMBDA k : /\ outcomes[k] # Pending
                         /\ outcomes[k].kind = "ok"
                         /\ has_data(outcomes[k].data))

YieldedData == [k \in 1..Len(YieldingTasks) |-> outcomes[YieldingTasks[k]].data]

\* C15: no call of extract_from_url or extract_from_urls ends by raising; a
\* failed source yields None; a call that ran its extractions returns the
\* merge of exactly the records of the sources that did not fail, and the
\* empty record when there is none
C15_FailureContained ==
    /\ returned.how # "raised"
    /\ \A k \in 1..Len(outcomes) :
          outcomes[k] # Pending =>
              /\ ~extract_from_url(outcomes[k]).raised
              /\ outcomes[k].kind # "ok" =>
                     /\ extract_from_url(outcomes[k]).v = EmptyEventData
                     /\ extraction_results[k] = JNull
    /\ (spc = "returned" /\ Len(finished) > 0) =>
          IF Len(YieldingTasks) = 0
          THEN returned = [how |-> "empty", v |-> EmptyEventData]
          ELSE /\ returned.how = "merged"
               /\ \E r \in ScraperReplies : returned.v = merge_results(YieldedData, r)

\* a call returned the merge of the sources that yielded data although
\* another source failed
C15_Witness ==
    /\ spc = "returned"
    /\ returned.how = "merged"
    /\ \E k \in 1..Len(outcomes) : outcomes[k].kind # "ok"
    /\ Len(YieldingTasks) >= 1
    /\ returned.v # EmptyEventData

(***************************************************************************)
(* C16.  The merged venue is that of the last URL of the expanded list     *)
(* that yielded a non-empty venue, in whatever order the extractions       *)
(* ended.                                                                  *)
(***************************************************************************)
\* the tasks, by position in the expanded list, that yielded a venue
VenueTasks ==
    {k \in 1..Len(outcomes) :
        /\ outcomes[k] # Pending
        /\ outcomes[k].kind = "ok"
        /\ Truthy(outcomes[k].data.venue)}

\* C16: the venue of a merged result is the venue of the task latest in the
\* expanded list among those that yielded one, and null when none did
C16_VenueOfLastUrl ==
    (spc = "returned" /\ returned.how = "merged") =>
        /\ Len(outcomes) = Len(expanded_urls)
        /\ IF VenueTasks = {} THEN returned.v.venue = JNull
           ELSE LET last == CHOOSE k \in VenueTasks : \A x \in VenueTasks : x <= k
                IN  returned.v.venue = outcomes[last].data.venue

\* two sources with different venues, the later one ending first
C16_Witness ==
    /\ spc = "returned"
    /\ returned.how = "merged"
    /\ \E i, j \in VenueTasks :
          /\ i < j
          /\ outcomes[i].data.venue # outcomes[j].data.venue
          /\ \E p, q \in 1..Len(finished) : p < q /\ finished[p] = j /\ finished[q] = i
          /\ returned.v.venue = outcomes[j].data.venue

(***************************************************************************)
(* C19.  The cache entry of a call depends only on the set of its URLs,    *)
(* and a stored result is returned only while it is younger than the TTL.  *)
(***************************************************************************)
\* the set of the URLs of a list
UrlSet(list) == {list[k] : k \in 1..Len(list)}

\* the call in progress, or the last one
CurrentCall == history[Len(history)]

\* the earlier calls that stored a result for the URL set of the current
\* call less than the TTL before its lookup
FreshStores ==
    {k \in 1..(Len(history) - 1) :
        /\ history[k].how = "merged"
        /\ UrlSet(history[k].urls) = UrlSet(CurrentCall.urls)
        /\ CurrentCall.at - history[k].ended < cache_ttl}

\* C19: a call with URLs is answered from the cache exactly when an earlier
\* call stored a result for the same set of URLs less than 3600 s before,
\* and the answer is the latest such result
C19_CacheKeyedByUrlSet ==
    (Len(history) > 0 /\ Len(CurrentCall.urls) > 0) =>
        /\ CurrentCall.how = "cache" <=> FreshStores # {}
        /\ CurrentCall.how = "cache" =>
               CurrentCall.result =
                   history[CHOOSE k \in FreshStores : \A x \in FreshStores : x <= k].result

(***************************************************************************)
(* C17.  A URL of a known JS-rendered domain is rendered headless without  *)
(* a plain-HTTP request; any other URL is requested over plain HTTP first  *)
(* and rendered headless only when the response looks like an empty        *)
(* framework shell.                                                        *)
(***************************************************************************)
\* the host of a URL: between the scheme and the first slash
Host(url) ==
    LET rest == IF StartsWith(url, "https://") THEN SubSeq(url, 9, Len(url))
                ELSE IF StartsWith(url, "http://") THEN SubSeq(url, 8, Len(url))
                ELSE url
    IN  BeforeFirst(rest, "/")

\* the URL is on one of the known JS-rendered domains or on a subdomain
OnKnownJsDomain(url) ==
    \E domain \in js_domains :
        \/ Lower(Host(url)) = domain
        \/ EndsWith(Lower(Host(url)), "." \o domain)

\* the page has a framework root marker and fewer than 3 paragraphs or
\* fewer than 500 characters of body text
LooksLikeShell(page) ==
    /\ page.reactroot \/ page.next
    /\ page.paragraph_count < 3 \/ page.body_text_length < 500

\* C17: for a URL on a known JS domain no plain-HTTP request is issued and
\* the only request is the headless one; for every other URL the first
\* request is the plain-HTTP one, and a headless one follows only a
\* response that looks like a framework shell
C17_FetchStrategy ==
    fetch_pc # "idle" =>
        IF OnKnownJsDomain(fetch_url)
        THEN \A k \in 1..Len(fetch_requests) : fetch_requests[k] = "browser"
        ELSE /\ Len(fetch_requests) >= 1 => fetch_requests[1] = "http"
             /\ Len(fetch_requests) >= 2 =>
                    /\ fetch_requests = <<"http", "browser">>
                    /\ LooksLikeShell(http_html)
             /\ fetch_pc = "rendering" => fetch_requests = <<"http">> /\ LooksLikeShell(http_html)
             /\ fetch_pc = "fetched" => Len(fetch_requests) >= 1

(***************************************************************************)
(* C21.  Every question of every returned list, the fallback set           *)
(* included, satisfies the drop rules of the normalizer.                   *)
(***************************************************************************)
\* p occurs in s, ignoring case
ContainsIgnoreCase(s, p) ==
    \E i \in 1..(Len(s) - Len(p) + 1) : EqualsIgnoreCase(SubSeq(s, i, i + Len(p) - 1), p)

\* the text is one the normalizer keeps: not blank, not the text of a
\* universal question, without demographic keyword and forbidden phrase
PassesDropRules(text) ==
    /\ Strip(text) # ""
    /\ \A u \in 1..Len(UNIVERSAL_QUESTIONS) :
          ~EqualsIgnoreCase(Strip(text), UNIVERSAL_QUESTIONS[u].question_text)
    /\ \A k \in 1..Len(demographic_keywords) :
          ~ContainsIgnoreCase(text, demographic_keywords[k])
    /\ \A k \in 1..Len(forbidden_patterns) :
          ~ContainsIgnoreCase(text, forbidden_patterns[k])

\* C21: whatever path produced the returned list, each of its questions
\* passes the drop rules
C21_EveryPathNormalized ==
    (pc = "done" /\ status = "returned") =>
        \A k \in 1..Len(result) : PassesDropRules(result[k].question_text)

(***************************************************************************)
(* C24.  The fallback set returned when call #1 fails has as many          *)
(* questions as the target question count of the request.                  *)
(***************************************************************************)
\* C24: after a failed call #1 the returned list is as long as the target
\* count the context analysis computed
C24_FallbackSizedToTarget ==
    (pc = "done" /\ status = "returned" /\ Len(calls) = 1 /\ Unusable(calls[1].reply)) =>
        Len(result) = context_analysis.target_question_count

(***************************************************************************)
(* C22.  No question in the output of the normalizer contains a forbidden  *)
(* phrase, in any case; a candidate containing one is dropped and the      *)
(* other candidates come out as they would without it.                     *)
(***************************************************************************)
\* the candidates, by position, that are dicts with a text passing the
\* drop rules
KeptCandidates ==
    {j \in 1..Len(all_questions) :
        /\ all_questions[j].t = "obj"
        /\ Get(all_questions[j], "question_text", JStr("")).t = "str"
        /\ PassesDropRules(Get(all_questions[j], "question_text", JStr("")).s)}

\* C22: no output text contains a forbidden phrase, and every candidate
\* that passes the drop rules is in the output, at its index and with its
\* trimmed text, whatever was dropped around it
C22_NoForbiddenPhrase ==
    (pc = "done" /\ status = "returned" /\ via = "normalized") =>
        /\ \A k \in 1..Len(result) : \A p \in 1..Len(forbidden_patterns) :
              ~ContainsIgnoreCase(result[k].question_text, forbidden_patterns[p])
        /\ Len(result) = Cardinality(KeptCandidates)
        /\ \A j \in KeptCandidates : \E k \in 1..Len(result) :
              /\ result[k].order = j - 1
              /\ result[k].question_text = Strip(all_questions[j].o.question_text.s)

\* a candidate with "Would you recommend" was dropped and the candidate
\* next to it was kept
C22_Witness ==
    /\ pc = "done" /\ status = "returned" /\ via = "normalized"
    /\ Len(all_questions) = 2
    /\ \E j \in 1..2 :
          /\ all_questions[j].t = "obj"
          /\ Get(all_questions[j], "question_text", JNull) = JStr("Would you recommend us?")
    /\ Len(result) = 1
    /\ result[1].question_text = "Which acts excite you?"

(***************************************************************************)
(* C23.  Every output question of the normalizer has one of the five       *)
(* types, and options that are a non-empty list exactly for the select     *)
(* and Likert types and null otherwise; a candidate of an unknown type or  *)
(* of a select or Likert type without a non-empty list of options comes    *)
(* out as text with null options.                                          *)
(***************************************************************************)
OptionTypes == {"Single-select", "Multi-select", "Likert"}

IsNonEmptyList(v) == v.t = "list" /\ Len(v.l) > 0

\* the output question made from the candidate at position j
OutputOf(j) == CHOOSE q \in {result[k] : k \in 1..Len(result)} : q.order = j - 1

\* the candidate names no type of the closed set, or names a select or
\* Likert type and brings no non-empty list of options
Demoted(q) ==
    LET type == Get(q, "question_type", JStr("text"))
    IN  \/ type.t # "str"
        \/ type.s \notin {"text", "textarea"} \cup OptionTypes
        \/ type.s \in OptionTypes /\ ~IsNonEmptyList(Get(q, "options", JNull))

\* C23: types are in the closed set, options are a non-empty list iff the
\* type takes options and null otherwise, and a demoted candidate comes
\* out as text with null options
C23_TypeAndOptions ==
    (pc = "done" /\ status = "returned" /\ via = "normalized") =>
        /\ \A k \in 1..Len(result) :
              /\ result[k].question_type \in {"text", "textarea"} \cup OptionTypes
              /\ IsNonEmptyList(result[k].options) <=> result[k].question_type \in OptionTypes
              /\ result[k].question_type \notin OptionTypes => result[k].options = JNull
        /\ \A j \in KeptCandidates :
              Demoted(all_questions[j]) =>
                  /\ OutputOf(j).question_type = "text"
                  /\ OutputOf(j).options = JNull

\* a Likert candidate without options and a candidate of the unknown type
\* "rating" both came out as text
C23_Witness ==
    /\ pc = "done" /\ status = "returned" /\ via = "normalized"
    /\ Len(result) = 2
    /\ {Get(all_questions[j], "question_type", JNull) : j \in 1..Len(all_questions)}
           = {JStr("Likert"), JStr("rating")}
    /\ \A k \in 1..2 : result[k].question_type = "text" /\ result[k].options = JNull

(***************************************************************************)
(* C25.  The merged lineup is the union of the lineups of the sources in   *)
(* first-seen order, one entry per name ignoring case and surrounding      *)
(* whitespace, each entry with the rank of the source it was first seen    *)
(* in.                                                                     *)
(***************************************************************************)
SameArtist(a, b) == EqualsIgnoreCase(Strip(a.name), Strip(b.name))

\* the positions <<source, index>> of the artists of the sources
LineupPositions ==
    UNION {{<<s, k>> : k \in 1..Len(results[s].lineup)} : s \in 1..Len(results)}

ArtistAt(p) == results[p[1]].lineup[p[2]]

Before(p, q) == p[1] < q[1] \/ (p[1] = q[1] /\ p[2] < q[2])

\* where the artist is first seen
FirstSeen(a) ==
    CHOOSE p \in LineupPositions :
        /\ SameArtist(ArtistAt(p), a)
        /\ \A q \in LineupPositions : SameArtist(ArtistAt(q), a) => ~Before(q, p)

\* C25: no name twice, every non-blank input name once, each entry the one
\* of its first occurrence (rank included), entries in first-seen order
C25_LineupUnion ==
    spc = "merged" =>
        LET kept == merged.lineup
        IN  /\ \A i, j \in 1..Len(kept) : i # j => ~SameArtist(kept[i], kept[j])
            /\ \A p \in LineupPositions :
                  Strip(ArtistAt(p).name) # "" =>
                      Cardinality({m \in 1..Len(kept) : SameArtist(kept[m], ArtistAt(p))}) = 1
            /\ \A m \in 1..Len(kept) :
                  /\ Strip(kept[m].name) # ""
                  /\ \E p \in LineupPositions : SameArtist(ArtistAt(p), kept[m])
                  /\ kept[m] = ArtistAt(FirstSeen(kept[m]))
            /\ \A i, j \in 1..Len(kept) :
                  i < j => Before(FirstSeen(kept[i]), FirstSeen(kept[j]))

\* an artist listed by two sources under differently written names was
\* merged into one entry, and two merged entries carry the same rank
C25_Witness ==
    /\ spc = "merged"
    /\ \E p, q \in LineupPositions :
          /\ p[1] < q[1]
          /\ ArtistAt(p).name # ArtistAt(q).name
          /\ SameArtist(ArtistAt(p), ArtistAt(q))
    /\ \E i, j \in 1..Len(merged.lineup) :
          i < j /\ merged.lineup[i].rank = merged.lineup[j].rank

(***************************************************************************)
(* C27.  The expanded URL list names no URL twice, also when the caller    *)
(* supplies a ticketing base URL together with its /reservation            *)
(* companion.                                                              *)
(***************************************************************************)
\* C27: for a call whose URLs are pairwise different the expanded list has
\* no URL at two positions
C27_NoUrlTwice ==
    (spc = "expanded" /\ \A i, j \in 1..Len(urls) : i # j => urls[i] # urls[j]) =>
        \A i, j \in 1..Len(expanded_urls) :
            i # j => expanded_urls[i] # expanded_urls[j]

(***************************************************************************)
(* C26.  A cache hit returns what a fresh extraction and merge of the      *)
(* requested URL list would return while the sources are unchanged, in     *)
(* particular for the same URLs in another order.                          *)
(***************************************************************************)
\* the call that stored the entry the current call was answered from
StoringCall ==
    LET stores == {k \in 1..(Len(history) - 1) :
                      /\ history[k].how = "merged"
                      /\ get_cache_key(history[k].urls) = get_cache_key(urls)}
    IN  history[CHOOSE k \in stores : \A x \in stores : x <= k]

\* what the page at a URL yielded when the entry was stored
YieldOf(url) ==
    LET at == CHOOSE k \in 1..Len(StoringCall.expanded) : StoringCall.expanded[k] = url
    IN  StoringCall.yielded[at]

\* lines 106-127 for the URLs of the current call, every page yielding
\* what it yielded when the entry was stored
FreshResult ==
    LET expanded == transform_urls_for_provider(urls)
        fresh == without_none([k \in 1..Len(expanded) |-> safe_extract(YieldOf(expanded[k]))])
    IN  IF Len(fresh) = 0 THEN EmptyEventData ELSE merge_results(fresh, ApiError)

\* C26: a call answered from the cache, all of whose pages were extracted
\* by the call that stored the entry, returns what its own extraction and
\* merge of those pages would return
C26_HitEqualsFresh ==
    (/\ spc = "returned"
     /\ returned.how = "cache"
     /\ \A k \in 1..Len(transform_urls_for_provider(urls)) :
           InSeq(transform_urls_for_provider(urls)[k], StoringCall.expanded))
        => returned.v = FreshResult


(***************************************************************************)
(* The survey conversation of one user with one pulse.                     *)
(***************************************************************************)
\* the conversation as a handler finds it: a user who has not written
\* before is invited by the first message
ConversationIn(conversations) ==
    IF Len(conversations) = 0
    THEN [status |-> "invited", current_question_index |-> 0]
    ELSE [status |-> conversations[1].status,
          current_question_index |-> conversations[1].current_question_index]

\* the text answers the question: a choice question with options takes the
\* number or the name of an option, one without options anything, a text
\* question anything but blanks
IsValidAnswer(question, text) ==
    IF question.question_type = "Single-select"
    THEN \/ question.options = JNull
         \/ question.options.l = <<>>
         \/ \E k \in 1..Len(question.options.l) :
               \/ EqualsIgnoreCase(Strip(text), question.options.l[k])
               \/ int(Strip(text)) = Ret(k)
    ELSE Strip(text) # ""

\* the step handles a message that answers the question the conversation is at
AnswerHandled ==
    /\ ConversationIn(pulse_conversations).status = "in_progress"
    /\ IsValidAnswer(
           pulse_questions[ConversationIn(pulse_conversations).current_question_index + 1],
           last_message')

\* the step stores one response, for the question the conversation is at
StoresOneForCurrent ==
    /\ Len(pulse_responses') = Len(pulse_responses) + 1
    /\ SubSeq(pulse_responses', 1, Len(pulse_responses)) = pulse_responses
    /\ pulse_responses'[Len(pulse_responses')].question_id =
          pulse_questions[ConversationIn(pulse_conversations).current_question_index + 1].id

StatusMoves ==
    <<ConversationIn(pulse_conversations).status,
      ConversationIn(pulse_conversations').status>>
        \in {<<"invited", "invited">>, <<"invited", "in_progress">>,
             <<"in_progress", "in_progress">>, <<"in_progress", "completed">>,
             <<"completed", "completed">>}

\* what a step does with a message that is no valid answer
OtherMessages ==
    /\ (ConversationIn(pulse_conversations).status = "in_progress" /\ ~AnswerHandled)
          => /\ pulse_responses' = pulse_responses
             /\ ConversationIn(pulse_conversations') = ConversationIn(pulse_conversations)
    /\ ConversationIn(pulse_conversations).status \in {"invited", "completed"}
          => pulse_responses' = pulse_responses

\* a completed conversation has one response per question, in question order
CompletedHasAll ==
    ConversationIn(pulse_conversations).status = "completed"
        => /\ Len(pulse_responses) = Len(pulse_questions)
           /\ \A k \in 1..Len(pulse_responses) :
                 pulse_responses[k].question_id = pulse_questions[k].id

\* C28 as stated: the status only moves invited -> in_progress -> completed;
\* every valid answer stores exactly one response for the current question
\* and advances current_question_index by one; an invalid answer stores
\* nothing and leaves status and index unchanged; messages received while
\* invited or completed store nothing; a completed conversation has exactly
\* one response per question, in question order.
C28_EveryAnswerAdvancesIndex ==
    /\ []CompletedHasAll
    /\ [][/\ StatusMoves
          /\ OtherMessages
          /\ AnswerHandled =>
                /\ StoresOneForCurrent
                /\ ConversationIn(pulse_conversations').current_question_index =
                      ConversationIn(pulse_conversations).current_question_index + 1]_vars

\* C28, amended: as above, except that a valid answer to the last question
\* stores its response, sets the status to completed and leaves
\* current_question_index at the last question; every other valid answer
\* advances the index by one and leaves the status in_progress.
C28_ConversationProgress ==
    /\ []CompletedHasAll
    /\ [][/\ StatusMoves
          /\ OtherMessages
          /\ AnswerHandled =>
                /\ StoresOneForCurrent
                /\ IF ConversationIn(pulse_conversations).current_question_index + 1
                        < Len(pulse_questions)
                   THEN ConversationIn(pulse_conversations') =
                           [status |-> "in_progress",
                            current_question_index |->
                                ConversationIn(pulse_conversations).current_question_index + 1]
                   ELSE ConversationIn(pulse_conversations') =
                           [status |-> "completed",
                            current_question_index |->
                                ConversationIn(pulse_conversations).current_question_index]]_vars

\* a survey of several questions was answered to the end, the last message
\* being the answer to the last question
C28_Witness ==
    /\ Len(pulse_questions) >= 2
    /\ ConversationIn(pulse_conversations).status = "completed"
    /\ Len(pulse_responses) = Len(pulse_questions)
    /\ last_result.action = "complete"


(***************************************************************************)
(* Message events handled by concurrent workers.                           *)
(***************************************************************************)
OneRowPerUser ==
    \A i, j \in 1..Len(pulse_conversations) :
        (/\ pulse_conversations[i].pulse_id = pulse_conversations[j].pulse_id
         /\ pulse_conversations[i].instagram_user_id =
               pulse_conversations[j].instagram_user_id) => i = j

\* the responses stored for the question in the conversation
ResponsesTo(conversation, question) ==
    {k \in 1..Len(pulse_responses) :
        /\ pulse_responses[k].submission_id = conversation.submission_id
        /\ pulse_responses[k].question_id = question.id}

\* the questions the conversation has behind it
QuestionsPassed(conversation) ==
    IF conversation.status = "completed" THEN 1..Len(pulse_questions)
    ELSE IF conversation.status = "in_progress"
    THEN 1..conversation.current_question_index
    ELSE {}

\* C29: whatever the interleaving of the workers handling the messages of
\* a user, there is at most one conversation row per (pulse, user), at most
\* one response is stored per question of a conversation, and no question
\* that the conversation has passed is without a response.
C29_ConcurrentMessages ==
    /\ OneRowPerUser
    /\ \A c \in 1..Len(pulse_conversations) :
          /\ \A q \in 1..Len(pulse_questions) :
                Cardinality(ResponsesTo(pulse_conversations[c], pulse_questions[q])) <= 1
          /\ \A q \in QuestionsPassed(pulse_conversations[c]) :
                ResponsesTo(pulse_conversations[c], pulse_questions[q]) # {}


(***************************************************************************)
(* The webhook endpoint and the signature of its requests.                 *)
(***************************************************************************)
\* the request carries an X-Hub-Signature-256 header that is the HMAC of
\* its body under the configured app secret
CarriesValidSignature(request) ==
    /\ instagram_app_secret # ""
    /\ request.signature # JNull
    /\ request.signature = JStr("sha256=" \o hexdigest(instagram_app_secret, request.body))

\* the step changes a conversation, stores a response or sends a DM
ProcessesEntries ==
    \/ pulse_conversations' # pulse_conversations
    \/ pulse_responses' # pulse_responses
    \/ sent_dms' # sent_dms

\* C30: a request to the webhook endpoint changes conversations, stores
\* responses or sends DMs only if it carries an X-Hub-Signature-256 header
\* that verifies against the app secret; a request whose signature is
\* missing or invalid causes no processing.
C30_OnlySignedRequestsProcessed ==
    [][ProcessesEntries =>
          CarriesValidSignature(webhook_requests'[Len(webhook_requests')])]_vars

====
